---- MODULE Spec2Model ----
\* A model of the websocket frontend of the Gateway Server
\* (pkg/gatewayserver/io/ws/ws.go): one run of srv.handleTraffic for one
\* gateway, with its reader loop, its writer goroutine, the Connection it
\* creates and the gateway / Gateway Server around it. Two further
\* specifications share the module: BandSpec, the calls of the band registry
\* and of the band tables' functions (pkg/band), and ClockSpec, the session
\* and XTime handling of the LNS formatter (pkg/gatewayserver/io/ws/lbslns).
EXTENDS Integers, Sequences, FiniteSets, TLC

\* ---------------------------------------------------------------- bounds
\* Data messages the gateway sends on the websocket.
MaxIn == 2
\* Pings in a row the gateway leaves unanswered.
MaxPings == 2
\* Downlinks the Gateway Server puts on conn.Down().
MaxDown == 1

\* ----------------------------------------------------------------- state
VARIABLES
  req,            \* the HTTP request: [idOK, auth]
  cfg,            \* Config: [AllowUnauthenticated, TimeSync (TimeSyncInterval > 0)]
  pc,             \* where the body of handleTraffic (the reader) is
  wpc,            \* where the writer goroutine is
  b,              \* the writer's locals b, err of line 273, while in scope
  err,            \* the named result err of handleTraffic
  ret,            \* what the HTTP layer got back ("pending" until the return)
  panicking,      \* the reader goroutine is unwinding a panic
  crashed,        \* a panic left a goroutine unrecovered: the process is gone
  conn,           \* the io.Connection of server.Connect
  session,        \* the ws.Session in the context: [timeSync]
  rights,         \* the rights handleTraffic put in the context itself
  wsState,        \* the websocket: "none", "open", "broken", "closed"
  wsWriteMu,      \* holder of wsWriteMu: "free", "reader", "writer"
  data,           \* the last message ReadMessage returned: [id, kind]
  handled,        \* the messages HandleUp was called on, in call order
  nRequire,       \* successful ratelimit.Require calls of the reader loop
  pingsSincePong, \* pings written since the gateway's last pong
  downs,          \* downlinks taken from conn.Down(): [enc, fate]
  disconnects,    \* the calls of conn.Disconnect: [by, reason], in call order
  call,           \* BandSpec: one call of a pkg/band function, with its result
  lns,            \* ClockSpec: the formatter's ws.Session and what it sent last
  sched,          \* SchedSpec: the downlink scheduler of one connection
  mem             \* MemberSpec: the membership store and the registry's last call

vars ==
  <<req, cfg, pc, wpc, b, err, ret, panicking, crashed, conn, session, rights,
    wsState, wsWriteMu, data, handled, nRequire, pingsSincePong,
    downs, disconnects, call, lns, sched, mem>>

\* The request and the configuration never change, and no step of
\* handleTraffic touches the state of the other specifications.
setup == <<req, cfg, call, lns, sched, mem>>
\* The state of handleTraffic, which BandSpec and ClockSpec leave alone.
wsVars ==
  <<req, cfg, pc, wpc, b, err, ret, panicking, crashed, conn, session, rights,
    wsState, wsWriteMu, data, handled, nRequire, pingsSincePong,
    downs, disconnects>>

\* What only the writer goroutine changes.
writerVars == <<wpc, b, downs>>
\* What only the body of handleTraffic changes.
readerVars == <<pc, err, ret, panicking, data, handled, nRequire, rights>>

\* Kinds of data message: an uplink (syncs the concentrator clock, no reply),
\* a version message (enables time sync, replied to with router_config), a
\* message HandleUp rejects, and one on which the formatter panics.
MsgKinds == {"uplink", "version", "malformed", "poison"}

NoData == [id |-> 0, kind |-> "none"]

\* No pkg/band function is being called.
NoCall == [fn |-> "none", done |-> FALSE]

\* What the formatter has sent when it has sent nothing.
NothingSent == [kind |-> "nothing", hasXTime |-> FALSE, XTime |-> 0, id |-> 0, t |-> 0]

\* A ws.Session as line 149 makes it: &Session{}; nothing sent yet.
NewSession == [ID |-> 0, TimeSync |-> FALSE, seq |-> 0, sent |-> NothingSent]

\* The scheduler before its first request: idle, nothing committed.
NoRequest == [class |-> "none", antenna |-> 0, time |-> 0, dur |-> 0, sb |-> 0]
NoSched == [state |-> "Idle", req |-> NoRequest, emissions |-> {}, log |-> <<>>]

\* The membership store as TestMembershipStore prepares it (lines 165-196):
\* the organization test-org exists, no membership, no call made yet.
NoCallMade ==
  [op |-> "none", account |-> "", entity |-> "", rights |-> {}, flags |-> {},
   err |-> "nil", stored |-> FALSE, res |-> {}]
NoStore == [members |-> {}, orgs |-> {"test-org"}, last |-> NoCallMade]

\* handleTraffic has not run a step.
NotStarted ==
  /\ pc = "start"
  /\ wpc = "none"
  /\ b = "unset"
  /\ err = "nil"
  /\ ret = "pending"
  /\ panicking = FALSE
  /\ crashed = FALSE
  /\ conn = [created |-> FALSE, registered |-> FALSE, cancelled |-> FALSE,
             reason |-> "none", releases |-> 0, synced |-> FALSE]
  /\ session = [timeSync |-> FALSE]
  /\ rights = {}
  /\ wsState = "none"
  /\ wsWriteMu = "free"
  /\ data = NoData
  /\ handled = <<>>
  /\ nRequire = 0
  /\ pingsSincePong = 0
  /\ downs = <<>>
  /\ disconnects = <<>>

Init ==
  /\ req \in [idOK : BOOLEAN, auth : {"", "token"}]
  /\ cfg \in [AllowUnauthenticated : BOOLEAN, TimeSync : BOOLEAN]
  /\ call = NoCall
  /\ lns = NewSession
  /\ sched = NoSched
  /\ mem = NoStore
  /\ NotStarted

\* ------------------------------------------------------------ Connection
\* Disconnect with a non-idempotent release: every call releases again and
\* overwrites the reason.
DisconnectEveryCall(c, reason) ==
  [c EXCEPT !.cancelled = TRUE, !.registered = FALSE, !.reason = reason,
            !.releases = @ + 1]

\* io.Connection.Disconnect(err): cancels the connection's context with the
\* reason and releases what the connection owns; a repeated call changes
\* nothing.
Disconnect(c, reason) ==
  IF c.cancelled
    THEN c
    ELSE [c EXCEPT !.cancelled = TRUE, !.registered = FALSE,
                   !.reason = reason, !.releases = @ + 1]

\* A call conn.Disconnect(reason) made by `by`.
CallDisconnect(by, reason) ==
  /\ conn' = Disconnect(conn, reason)
  /\ disconnects' = Append(disconnects, [by |-> by, reason |-> reason])

\* ws.WriteMessage succeeds on an open websocket only.
CanWrite == wsState = "open"

\* -------------------------------------------- handleTraffic: before the loop
\* Lines 151-161: the id must be eui-<16 hex digits>.
ParseGatewayID ==
  /\ ~crashed
  /\ pc = "start"
  /\ IF req.idOK
       THEN /\ pc' = "fill"
            /\ UNCHANGED <<err, ret>>
       ELSE /\ pc' = "returned"
            /\ err' = "invalid_gateway_id"
            /\ ret' = "invalid_gateway_id"
  /\ UNCHANGED <<setup, writerVars, panicking, crashed, conn, session, rights,
                 wsState, wsWriteMu, data, handled, nRequire, pingsSincePong, disconnects>>

\* Lines 163-166: server.FillGatewayContext succeeds or fails.
FillGatewayContext ==
  /\ ~crashed
  /\ pc = "fill"
  /\ \E ok \in BOOLEAN :
       IF ok
         THEN /\ pc' = "auth"
              /\ UNCHANGED <<err, ret>>
         ELSE /\ pc' = "returned"
              /\ err' = "fill_context"
              /\ ret' = "fill_context"
  /\ UNCHANGED <<setup, writerVars, panicking, crashed, conn, session, rights,
                 wsState, wsWriteMu, data, handled, nRequire, pingsSincePong, disconnects>>

\* Injected rights that hold for another gateway as well.
InjectedRightsAnyGateway ==
  {[uid |-> u, right |-> "RIGHT_GATEWAY_LINK"] : u \in {"self", "other"}}

\* The rights handleTraffic injects for a request without Authorization
\* header (lines 195-201): the link right, for the gateway's own uid.
InjectedRights == {[uid |-> "self", right |-> "RIGHT_GATEWAY_LINK"]}

\* Lines 192-206.
CheckAuth ==
  /\ ~crashed
  /\ pc = "auth"
  /\ IF req.auth = ""
       THEN IF cfg.AllowUnauthenticated
              THEN /\ rights' = InjectedRights
                   /\ pc' = "connect"
                   /\ UNCHANGED <<err, ret>>
              ELSE /\ pc' = "returned"
                   /\ err' = "no_auth_provided"
                   /\ ret' = "no_auth_provided"
                   /\ UNCHANGED rights
       ELSE /\ pc' = "connect"
            /\ UNCHANGED <<err, ret, rights>>
  /\ UNCHANGED <<setup, writerVars, panicking, crashed, conn, session,
                 wsState, wsWriteMu, data, handled, nRequire, pingsSincePong, disconnects>>

\* Lines 210-214: server.Connect registers the connection or fails.
Connect ==
  /\ ~crashed
  /\ pc = "connect"
  /\ \E ok \in BOOLEAN :
       IF ok
         THEN /\ conn' = [conn EXCEPT !.created = TRUE, !.registered = TRUE]
              /\ pc' = "upgrade"
              /\ UNCHANGED <<err, ret>>
         ELSE /\ pc' = "returned"
              /\ err' = "connect"
              /\ ret' = "connect"
              /\ UNCHANGED conn
  /\ UNCHANGED <<setup, writerVars, panicking, crashed, session, rights,
                 wsState, wsWriteMu, data, handled, nRequire, pingsSincePong, disconnects>>

\* A failed upgrade that returns without disconnecting.
UpgradeFailedNoDisconnect ==
  /\ pc' = "returned"
  /\ err' = "upgrade"
  /\ ret' = "upgrade"
  /\ UNCHANGED <<conn, disconnects, wsState, wpc>>

\* Lines 217-221: the upgrade failed.
UpgradeFailed ==
  /\ CallDisconnect("upgrade", "upgrade")
  /\ pc' = "returned"
  /\ err' = "upgrade"
  /\ ret' = "upgrade"
  /\ UNCHANGED <<wsState, wpc>>

\* Lines 216-313: the upgrade; on success the websocket is open, the deferred
\* calls are registered, the handlers are set and the writer goroutine runs.
Upgrade ==
  /\ ~crashed
  /\ pc = "upgrade"
  /\ \/ /\ wsState' = "open"
        /\ wpc' = "select"
        /\ pc' = "require"
        /\ err' = "nil"
        /\ UNCHANGED <<ret, conn, disconnects>>
     \/ UpgradeFailed
  /\ UNCHANGED <<setup, b, downs, panicking, crashed, session, rights,
                 wsWriteMu, data, handled, nRequire, pingsSincePong>>

\* ------------------------------------------------ handleTraffic: the loop
\* Lines 317-321: ratelimit.Require failed.
RateLimited ==
  /\ CallDisconnect("reader", "rate_limited")
  /\ err' = "rate_limited"
  /\ pc' = "deferred"
  /\ UNCHANGED nRequire

\* Line 317: ratelimit.Require on the gateway's uplink resource, at the head
\* of every iteration.
Require ==
  /\ ~crashed
  /\ pc = "require"
  /\ \/ /\ nRequire' = nRequire + 1
        /\ pc' = "read"
        /\ UNCHANGED <<err, conn, disconnects>>
     \/ RateLimited
  /\ UNCHANGED <<setup, writerVars, ret, panicking, crashed, session, rights,
                 wsState, wsWriteMu, data, handled, pingsSincePong>>

\* A read that does not wait for HandleUp: the next message replaces one that
\* was read and not handled yet.
ReadMessageAhead ==
  /\ ~crashed
  /\ pc \in {"read", "handleUp"}
  /\ wsState = "open"
  /\ data.id < MaxIn
  /\ \E kind \in MsgKinds : data' = [id |-> data.id + 1, kind |-> kind]
  /\ pc' = "handleUp"
  /\ UNCHANGED <<setup, writerVars, err, ret, panicking, crashed, conn, session,
                 rights, wsState, wsWriteMu, handled, nRequire, pingsSincePong, disconnects>>

\* Line 322: ws.ReadMessage returns the gateway's next data message.
ReadMessage ==
  /\ ~crashed
  /\ pc = "read"
  /\ wsState = "open"
  /\ data.id < MaxIn
  /\ \E kind \in MsgKinds : data' = [id |-> data.id + 1, kind |-> kind]
  /\ pc' = "handleUp"
  /\ UNCHANGED <<setup, writerVars, err, ret, panicking, crashed, conn, session,
                 rights, wsState, wsWriteMu, handled, nRequire, pingsSincePong, disconnects>>

\* Lines 322-326: ws.ReadMessage fails once the websocket is closed or broken.
ReadMessageFailed ==
  /\ ~crashed
  /\ pc = "read"
  /\ wsState # "open"
  /\ err' = "read"
  /\ pc' = "deferred"
  /\ UNCHANGED <<setup, writerVars, ret, panicking, crashed, conn, session,
                 rights, wsState, wsWriteMu, data, handled, nRequire, pingsSincePong, disconnects>>

\* A ping handler that writes the pong without taking wsWriteMu.
PingHandlerWithoutLock ==
  /\ ~crashed
  /\ pc = "read"
  /\ wsState = "open"
  /\ pc' = "pongWrite"
  /\ UNCHANGED <<setup, writerVars, err, ret, panicking, crashed, conn, session,
                 rights, wsState, wsWriteMu, data, handled, nRequire,
                 pingsSincePong, disconnects>>

\* Lines 233-236: inside ReadMessage a ping frame of the gateway runs the ping
\* handler, which takes wsWriteMu.
PingHandlerLock ==
  /\ ~crashed
  /\ pc = "read"
  /\ wsState = "open"
  /\ wsWriteMu = "free"
  /\ wsWriteMu' = "reader"
  /\ pc' = "pongWrite"
  /\ UNCHANGED <<setup, writerVars, err, ret, panicking, crashed, conn, session,
                 rights, wsState, data, handled, nRequire, pingsSincePong, disconnects>>

\* Lines 236-241: the ping handler writes the pong and unlocks; its error is
\* the error of ReadMessage.
PingHandlerWrite ==
  /\ ~crashed
  /\ pc = "pongWrite"
  /\ wsWriteMu' = "free"
  /\ IF CanWrite
       THEN /\ pc' = "read"
            /\ UNCHANGED err
       ELSE /\ err' = "pong_write"
            /\ pc' = "deferred"
  /\ UNCHANGED <<setup, writerVars, ret, panicking, crashed, conn, session,
                 rights, wsState, data, handled, nRequire, pingsSincePong, disconnects>>

\* Lines 245-248: inside ReadMessage a pong frame of the gateway runs the pong
\* handler, which logs and returns nil.
PongHandler ==
  /\ ~crashed
  /\ pc = "read"
  /\ wsState = "open"
  /\ pingsSincePong > 0
  /\ pingsSincePong' = 0
  /\ UNCHANGED <<setup, writerVars, readerVars, crashed, conn, session, wsState,
                 wsWriteMu, disconnects>>

\* A HandleUp error after which the loop goes on with the next message.
HandleUpFailedKeepsReading ==
  /\ pc' = "require"
  /\ UNCHANGED <<err, panicking, conn, session>>

\* Lines 328-330: HandleUp returned an error.
HandleUpFailed ==
  /\ err' = "handle_up"
  /\ pc' = "deferred"
  /\ UNCHANGED <<panicking, conn, session>>

\* A handled message after which the loop reads without asking the limiter.
HandleUpDoneSkipsRequire ==
  /\ pc' = "read"
  /\ UNCHANGED <<err, panicking>>

\* Lines 331-342: HandleUp returned no downstream message: next iteration.
HandleUpDone ==
  /\ pc' = "require"
  /\ UNCHANGED <<err, panicking>>

\* Line 327: formatter.HandleUp on the message just read. An uplink syncs the
\* connection's concentrator clock, a version message enables time sync for
\* the session and is answered; a panic unwinds into the deferred calls.
HandleUp ==
  /\ ~crashed
  /\ pc = "handleUp"
  /\ handled' = Append(handled, data)
  /\ \/ /\ data.kind = "malformed"
        /\ HandleUpFailed
     \/ /\ data.kind = "uplink"
        /\ conn' = [conn EXCEPT !.synced = TRUE]
        /\ HandleUpDone
        /\ UNCHANGED session
     \/ /\ data.kind = "version"
        /\ session' = [session EXCEPT !.timeSync = TRUE]
        /\ pc' = "replyLock"
        /\ UNCHANGED <<err, panicking, conn>>
     \/ /\ data.kind = "poison"
        /\ panicking' = TRUE
        /\ pc' = "deferred"
        /\ UNCHANGED <<err, conn, session>>
  /\ UNCHANGED <<setup, writerVars, ret, crashed, rights, wsState, wsWriteMu,
                 data, nRequire, pingsSincePong, disconnects>>

\* Line 333: the reader takes wsWriteMu for the downstream message.
DownstreamLock ==
  /\ ~crashed
  /\ pc = "replyLock"
  /\ wsWriteMu = "free"
  /\ wsWriteMu' = "reader"
  /\ pc' = "replyWrite"
  /\ UNCHANGED <<setup, writerVars, err, ret, panicking, crashed, conn, session,
                 rights, wsState, data, handled, nRequire, pingsSincePong, disconnects>>

\* Lines 334-341: the downstream message is written and the mutex released; a
\* failed write disconnects and ends the loop.
DownstreamWrite ==
  /\ ~crashed
  /\ pc = "replyWrite"
  /\ wsWriteMu' = "free"
  /\ IF CanWrite
       THEN /\ pc' = "require"
            /\ UNCHANGED <<err, conn, disconnects>>
       ELSE /\ CallDisconnect("reader", "write")
            /\ err' = "write"
            /\ pc' = "deferred"
  /\ UNCHANGED <<setup, writerVars, ret, panicking, crashed, session, rights,
                 wsState, data, handled, nRequire, pingsSincePong>>

\* A deferred teardown that clears err before it calls conn.Disconnect.
DeferredDisconnectClearsFirst ==
  /\ ~crashed
  /\ pc = "deferred"
  /\ CallDisconnect("deferred", "nil")
  /\ err' = "nil"
  /\ pc' = "closing"
  /\ UNCHANGED <<setup, writerVars, ret, panicking, crashed, session, rights,
                 wsState, wsWriteMu, data, handled, nRequire, pingsSincePong>>

\* Lines 225-228: the deferred teardown: conn.Disconnect(err); err = nil.
DeferredDisconnect ==
  /\ ~crashed
  /\ pc = "deferred"
  /\ CallDisconnect("deferred", err)
  /\ err' = "nil"
  /\ pc' = "closing"
  /\ UNCHANGED <<setup, writerVars, ret, panicking, crashed, session, rights,
                 wsState, wsWriteMu, data, handled, nRequire, pingsSincePong>>

\* Line 222: the deferred ws.Close(), then the return; a panic is recovered
\* by the Recover middleware of line 74.
DeferredClose ==
  /\ ~crashed
  /\ pc = "closing"
  /\ wsState' = "closed"
  /\ ret' = IF panicking THEN "recovered_panic" ELSE err
  /\ pc' = "returned"
  /\ UNCHANGED <<setup, writerVars, err, panicking, crashed, conn, session,
                 rights, wsWriteMu, data, handled, nRequire, pingsSincePong, disconnects>>

\* ------------------------------------------- handleTraffic: writer goroutine
\* Lines 261-262: the select takes the Done case of the connection's context.
SelectDone ==
  /\ ~crashed
  /\ wpc = "select"
  /\ conn.cancelled
  /\ wpc' = "exit"
  /\ UNCHANGED <<setup, readerVars, b, downs, crashed, conn, session,
                 wsState, wsWriteMu, pingsSincePong, disconnects>>

\* Lines 263-264: the select takes a tick of pingTicker and locks wsWriteMu.
SelectPingTicker ==
  /\ ~crashed
  /\ wpc = "select"
  /\ pingsSincePong < MaxPings
  /\ wsWriteMu = "free"
  /\ wsWriteMu' = "writer"
  /\ wpc' = "pingWrite"
  /\ UNCHANGED <<setup, readerVars, b, downs, crashed, conn, session, wsState,
                 pingsSincePong, disconnects>>

\* A written ping that disconnects when an earlier ping is still unanswered.
PingWrittenExpectsPong ==
  /\ pingsSincePong' = pingsSincePong + 1
  /\ IF pingsSincePong > 0
       THEN /\ CallDisconnect("writer", "liveness_timeout")
            /\ wpc' = "exit"
       ELSE /\ wpc' = "select"
            /\ UNCHANGED <<conn, disconnects>>

\* Lines 265-267: the ping was written; the loop goes on, whatever the gateway
\* answered to earlier pings.
PingWritten ==
  /\ pingsSincePong' = pingsSincePong + 1
  /\ wpc' = "select"
  /\ UNCHANGED <<conn, disconnects>>

\* A failed write that disconnects and goes on serving the select.
WriteFailedKeepsServing ==
  /\ CallDisconnect("writer", "write")
  /\ wpc' = "select"

\* Lines 267-271, 286-290, 306-310: a write of the writer goroutine failed.
WriteFailed ==
  /\ CallDisconnect("writer", "write")
  /\ wpc' = "exit"

\* Lines 265-271: the ping is written and the mutex released.
PingWrite ==
  /\ ~crashed
  /\ wpc = "pingWrite"
  /\ wsWriteMu' = "free"
  /\ IF CanWrite
       THEN PingWritten
       ELSE WriteFailed /\ UNCHANGED pingsSincePong
  /\ UNCHANGED <<setup, readerVars, b, downs, crashed, session, wsState>>

\* Line 272: the select takes a tick of the time sync ticker, which exists
\* when TimeSyncInterval > 0 (lines 250-255).
SelectTimeSyncTicker ==
  /\ ~crashed
  /\ wpc = "select"
  /\ cfg.TimeSync
  /\ wpc' = "transferTime"
  /\ UNCHANGED <<setup, readerVars, b, downs, crashed, conn, session, wsState,
                 wsWriteMu, pingsSincePong, disconnects>>

\* formatter.TransferTime: nothing and no error while the session has no time
\* sync; with time sync a message, an error or a panic of the formatter.
TransferTimeResults(s) ==
  IF s.timeSync THEN {"bytes", "error", "panic"} ELSE {"nil"}

\* A time sync tick whose empty result is written all the same.
TransferTimeNextWritesNil(res) ==
  IF res = "error" THEN "failed" ELSE "timeLock"

\* An error of TransferTime that is logged and skipped like an empty result.
TransferTimeNextSkipsError(res) ==
  IF res \in {"error", "nil"} THEN "select" ELSE "timeLock"

\* Lines 274-281: where the writer goes with the result of TransferTime.
TransferTimeNext(res) ==
  CASE res = "error" -> "failed"
    [] res = "nil" -> "select"
    [] OTHER -> "timeLock"

\* Line 273: formatter.TransferTime returns into b, err. A panic runs the
\* goroutine's deferred ws.Close() and ends the process: no recover covers
\* the goroutine.
TransferTime ==
  /\ ~crashed
  /\ wpc = "transferTime"
  /\ \E res \in TransferTimeResults(session) :
       IF res = "panic"
         THEN /\ crashed' = TRUE
              /\ wsState' = "closed"
              /\ wpc' = "panicked"
              /\ UNCHANGED b
         ELSE /\ b' = res
              /\ wpc' = "timeCheck"
              /\ UNCHANGED <<crashed, wsState>>
  /\ UNCHANGED <<setup, readerVars, downs, conn, session, wsWriteMu,
                 pingsSincePong, disconnects>>

\* Lines 274-281: the branches on the result of TransferTime: an error
\* disconnects and ends the goroutine, an empty result is skipped.
TimeSyncCheck ==
  /\ ~crashed
  /\ wpc = "timeCheck"
  /\ b' = "unset"
  /\ IF TransferTimeNext(b) = "failed"
       THEN /\ CallDisconnect("writer", "transfer_time")
            /\ wpc' = "exit"
       ELSE /\ wpc' = TransferTimeNext(b)
            /\ UNCHANGED <<conn, disconnects>>
  /\ UNCHANGED <<setup, readerVars, downs, crashed, session, wsState,
                 wsWriteMu, pingsSincePong>>

\* Line 283: the writer takes wsWriteMu for the time sync message.
TimeSyncLock ==
  /\ ~crashed
  /\ wpc = "timeLock"
  /\ wsWriteMu = "free"
  /\ wsWriteMu' = "writer"
  /\ wpc' = "timeWrite"
  /\ UNCHANGED <<setup, readerVars, b, downs, crashed, conn, session,
                 wsState, pingsSincePong, disconnects>>

\* Lines 284-290: the time sync message is written and the mutex released.
TimeSyncWrite ==
  /\ ~crashed
  /\ wpc = "timeWrite"
  /\ wsWriteMu' = "free"
  /\ IF CanWrite
       THEN /\ wpc' = "select"
            /\ UNCHANGED <<conn, disconnects>>
       ELSE WriteFailed
  /\ UNCHANGED <<setup, readerVars, b, downs, crashed, session, wsState,
                 pingsSincePong>>

\* Line 291: the select takes a downlink from conn.Down(); the formatter will
\* or will not be able to encode it.
SelectDown ==
  /\ ~crashed
  /\ wpc = "select"
  /\ Len(downs) < MaxDown
  /\ \E enc \in BOOLEAN :
       downs' = Append(downs, [enc |-> enc, fate |-> "taken"])
  /\ wpc' = "down"
  /\ UNCHANGED <<setup, readerVars, b, crashed, conn, session, wsState,
                 wsWriteMu, pingsSincePong, disconnects>>

Fate(f) == downs' = [downs EXCEPT ![Len(downs)].fate = f]

\* A downlink that cannot be encoded taken as fatal, like a failed write.
FromDownlinkFatal ==
  /\ ~crashed
  /\ wpc = "down"
  /\ IF ~conn.synced
       THEN /\ Fate("no_clock_sync")
            /\ wpc' = "select"
            /\ UNCHANGED <<conn, disconnects>>
       ELSE IF ~downs[Len(downs)].enc
              THEN /\ Fate("marshal_failed")
                   /\ CallDisconnect("writer", "marshal")
                   /\ wpc' = "exit"
              ELSE /\ wpc' = "downLock"
                   /\ UNCHANGED <<downs, conn, disconnects>>
  /\ UNCHANGED <<setup, readerVars, b, crashed, session, wsState,
                 wsWriteMu, pingsSincePong>>

\* Lines 292-301: conn.TimeFromTimestampTime and formatter.FromDownlink; the
\* downlink is skipped when the clock is not synchronized or the encoding
\* fails.
FromDownlink ==
  /\ ~crashed
  /\ wpc = "down"
  /\ IF ~conn.synced
       THEN /\ Fate("no_clock_sync")
            /\ wpc' = "select"
       ELSE IF ~downs[Len(downs)].enc
              THEN /\ Fate("marshal_failed")
                   /\ wpc' = "select"
              ELSE /\ wpc' = "downLock"
                   /\ UNCHANGED downs
  /\ UNCHANGED <<setup, readerVars, b, crashed, conn, session, wsState,
                 wsWriteMu, pingsSincePong, disconnects>>

\* Line 303: the writer takes wsWriteMu for the downlink message.
DownlinkLock ==
  /\ ~crashed
  /\ wpc = "downLock"
  /\ wsWriteMu = "free"
  /\ wsWriteMu' = "writer"
  /\ wpc' = "downWrite"
  /\ UNCHANGED <<setup, readerVars, b, downs, crashed, conn, session,
                 wsState, pingsSincePong, disconnects>>

\* Lines 304-310: the downlink message is written and the mutex released.
DownlinkWrite ==
  /\ ~crashed
  /\ wpc = "downWrite"
  /\ wsWriteMu' = "free"
  /\ IF CanWrite
       THEN /\ Fate("written")
            /\ wpc' = "select"
            /\ UNCHANGED <<conn, disconnects>>
       ELSE /\ WriteFailed
            /\ Fate("write_failed")
  /\ UNCHANGED <<setup, readerVars, b, crashed, session, wsState,
                 pingsSincePong>>

\* Line 258: the goroutine's deferred ws.Close().
WriterClose ==
  /\ ~crashed
  /\ wpc = "exit"
  /\ wsState' = "closed"
  /\ wpc' = "returned"
  /\ UNCHANGED <<setup, readerVars, b, downs, crashed, conn, session,
                 wsWriteMu, pingsSincePong, disconnects>>

\* ------------------------------------------------------------ environment
\* The Gateway Server disconnects the connection itself (a newer connection
\* of the same gateway, a shutdown).
ServerDisconnect ==
  /\ ~crashed
  /\ conn.registered
  /\ CallDisconnect("server", "server")
  /\ UNCHANGED <<setup, readerVars, writerVars, crashed, session, wsState,
                 wsWriteMu, pingsSincePong>>

\* The transport under the websocket fails: reads and writes fail from now on.
TransportFails ==
  /\ ~crashed
  /\ wsState = "open"
  /\ wsState' = "broken"
  /\ UNCHANGED <<setup, readerVars, writerVars, crashed, conn, session,
                 wsWriteMu, pingsSincePong, disconnects>>

Next ==
  \/ ParseGatewayID
  \/ FillGatewayContext
  \/ CheckAuth
  \/ Connect
  \/ Upgrade
  \/ Require
  \/ ReadMessage
  \/ ReadMessageFailed
  \/ PingHandlerLock
  \/ PingHandlerWrite
  \/ PongHandler
  \/ HandleUp
  \/ DownstreamLock
  \/ DownstreamWrite
  \/ DeferredDisconnect
  \/ DeferredClose
  \/ SelectDone
  \/ SelectPingTicker
  \/ PingWrite
  \/ SelectTimeSyncTicker
  \/ TransferTime
  \/ TimeSyncCheck
  \/ TimeSyncLock
  \/ TimeSyncWrite
  \/ SelectDown
  \/ FromDownlink
  \/ DownlinkLock
  \/ DownlinkWrite
  \/ WriterClose
  \/ ServerDisconnect
  \/ TransportFails

Spec == Init /\ [][Next]_vars

\* ------------------------------------------------------------ properties
\* The calls of conn.Disconnect made by handleTraffic itself.
HandlerDisconnects == {i \in 1..Len(disconnects) : disconnects[i].by # "server"}

DisconnectsBy(party) == {i \in 1..Len(disconnects) : disconnects[i].by = party}

\* The reader loop of handleTraffic has ended.
LoopEnded == pc \in {"deferred", "closing", "returned"}

\* C1: once server.Connect has succeeded, handleTraffic does not return
\* before it has called conn.Disconnect at least once, so that no exit leaves
\* the connection registered.
C1_DisconnectOnEveryExit ==
  (pc = "returned" /\ conn.created) =>
    (HandlerDisconnects # {} /\ conn.cancelled /\ ~conn.registered)

\* C1 witness: handleTraffic returned after a HandleUp error, on a connection
\* it had registered and that nobody else disconnected.
C1_Witness ==
  /\ pc = "returned"
  /\ conn.created
  /\ data.kind = "malformed"
  /\ DisconnectsBy("server") = {}
  /\ HandlerDisconnects # {}

\* C2 as stated: for one connection handleTraffic calls Disconnect exactly
\* once: never twice, and once when it returns.
C2_ExactlyOneDisconnect ==
  /\ Cardinality(HandlerDisconnects) <= 1
  /\ (pc = "returned" /\ conn.created) => Cardinality(HandlerDisconnects) = 1

\* C2 amended: each of the failed upgrade, the reader loop, the deferred
\* teardown and the writer goroutine calls Disconnect at most once, so that a
\* returned handleTraffic has called it between one and three times.
C2_AtMostOncePerParty ==
  /\ \A party \in {"upgrade", "reader", "deferred", "writer"} :
       Cardinality(DisconnectsBy(party)) <= 1
  /\ (disconnects # <<>>) => (conn.cancelled /\ conn.releases = 1)
  /\ (pc = "returned" /\ conn.created) =>
       Cardinality(HandlerDisconnects) \in 1..3

\* C2 witness: the writer goroutine, the reader loop and the deferred teardown
\* have all three called Disconnect.
C2_Witness ==
  /\ pc = "returned"
  /\ Cardinality(HandlerDisconnects) = 3

\* C3: calls of Disconnect after the first change nothing: the connection is
\* released once and keeps the reason of the first call.
C3_DisconnectIdempotent ==
  /\ conn.releases <= 1
  /\ (disconnects # <<>>) =>
       /\ conn.cancelled
       /\ conn.releases = 1
       /\ conn.reason = disconnects[1].reason

\* C3 witness: Disconnect was called a second time, with another reason.
C3_Witness ==
  /\ Len(disconnects) >= 2
  /\ disconnects[2].reason # disconnects[1].reason
  /\ disconnects[2].by = "deferred"

\* The writer goroutine has left its loop on a cancelled connection.
CancellationObserved == conn.cancelled /\ wpc \in {"exit", "returned"}

\* A step in which handleTraffic writes a downstream reply, a ping, a time
\* sync message or a downlink to the websocket, and the write succeeds.
Transmits ==
  /\ CanWrite
  /\ \/ pc = "replyWrite" /\ pc' # pc
     \/ wpc \in {"pingWrite", "timeWrite", "downWrite"} /\ wpc' # wpc

\* C4 as stated: once the cancellation of the connection has been observed,
\* no downlink, time sync message, ping or downstream reply is written to the
\* gateway's websocket.
C4_NoWriteAfterCancellation == [][CancellationObserved => ~Transmits]_vars

\* C5 as stated: a ping left unanswered for a whole ping interval (the next
\* ping is written and the first has still no pong) disconnects the
\* connection.
C5_LivenessTimeout == (pingsSincePong >= 2) => conn.cancelled

\* C5 amended: pings are written tick after tick whatever the gateway
\* answers: writing a ping, with earlier pings unanswered or not, never
\* disconnects the connection and the goroutine goes back to its select.
C5_NoReplyExpected ==
  [][(pingsSincePong' > pingsSincePong) =>
       (wpc' = "select" /\ conn' = conn /\ disconnects' = disconnects)]_vars

\* C5 witness: two pings in a row without a pong, and the connection serves on.
C5_Witness ==
  /\ pingsSincePong >= 2
  /\ wpc = "select"
  /\ ~conn.cancelled
  /\ wsState = "open"

\* C6 as stated: a panic in the reader loop or in the writer goroutine does
\* not escape the connection and ends in a conn.Disconnect.
C6_PanicGuarded ==
  /\ ~crashed
  /\ (panicking /\ pc = "returned") => conn.cancelled

\* The downlinks the writer goroutine is done with.
Finished == {i \in 1..Len(downs) : downs[i].fate # "taken"}

\* C7 as stated: a downlink taken from the queue is written to the gateway or
\* rejected to its originator.
C7_NoSilentDrop ==
  \A i \in Finished : downs[i].fate \in {"written", "rejected"}

\* The messages on which HandleUp returned an error.
Malformed == {i \in 1..Len(handled) : handled[i].kind = "malformed"}

\* C8 as stated: a single HandleUp error does not end the session.
C8_SingleErrorTolerated ==
  (Cardinality(Malformed) = 1) =>
    (~LoopEnded /\ \A i \in 1..Len(disconnects) : disconnects[i].reason # "handle_up")

\* C8 amended: the first HandleUp error ends the session: the message is the
\* last one handled, the reader loop has ended and the deferred teardown
\* disconnects with that error.
C8_ErrorEndsSession ==
  \A i \in Malformed :
    /\ i = Len(handled)
    /\ LoopEnded
    /\ (pc = "deferred") => (err = "handle_up")
    /\ (pc # "deferred") =>
         \E j \in 1..Len(disconnects) :
           disconnects[j] = [by |-> "deferred", reason |-> "handle_up"]

\* C8 witness: handleTraffic returned after a message HandleUp rejected.
C8_Witness ==
  /\ pc = "returned"
  /\ Malformed # {}
  /\ ret = "nil"

RateLimitHit ==
  \E i \in 1..Len(disconnects) :
    disconnects[i] = [by |-> "reader", reason |-> "rate_limited"]

\* C10: every message read and handed to HandleUp has its own successful
\* Require before it, and a failed Require disconnects the connection and
\* ends the loop.
C10_RequireBeforeEveryMessage ==
  /\ (pc \in {"read", "pongWrite"}) => (nRequire = data.id + 1)
  /\ (pc \in {"handleUp", "replyLock", "replyWrite"}) => (nRequire = data.id)
  /\ Len(handled) <= nRequire
  /\ RateLimitHit => (conn.cancelled /\ LoopEnded /\ nRequire = Len(handled))

\* C10 witness: two messages were handled and the third Require failed.
C10_Witness ==
  /\ Len(handled) = 2
  /\ RateLimitHit
  /\ pc = "returned"

\* C11: HandleUp is called on the messages in the order ReadMessage returned
\* them, none skipped and none twice, and the next message is read only after
\* HandleUp of the last one has returned.
C11_UplinksInOrder ==
  /\ \A i \in 1..Len(handled) : handled[i].id = i
  /\ (pc = "handleUp") => (Len(handled) = data.id - 1)
  /\ (pc # "handleUp") => (Len(handled) = data.id)
  /\ (Len(handled) > 0 /\ pc # "handleUp") => (handled[Len(handled)] = data)

\* C11 witness: two messages were read and handed to HandleUp one after the
\* other, and the loop is at the head of its third iteration.
C11_Witness ==
  /\ Len(handled) = 2
  /\ handled[1].id = 1
  /\ handled[2].id = 2
  /\ pc = "require"

\* C12: a request without Authorization header never gets to server.Connect
\* unless AllowUnauthenticated is set: past the id and context steps it
\* returns no_auth_provided and no connection is created; with
\* AllowUnauthenticated the rights put in the context are the link right of
\* the gateway's own uid and nothing else; a request with a header gets none.
C12_NoConnectWithoutAuth ==
  /\ (req.auth = "" /\ ~cfg.AllowUnauthenticated) =>
       /\ pc \in {"start", "fill", "auth", "returned"}
       /\ ~conn.created
       /\ rights = {}
       /\ ret \in {"pending", "invalid_gateway_id", "fill_context", "no_auth_provided"}
  /\ (req.auth = "" /\ cfg.AllowUnauthenticated /\ pc \in {"connect", "upgrade"}) =>
       rights = {[uid |-> "self", right |-> "RIGHT_GATEWAY_LINK"]}
  /\ conn.created =>
       rights = IF req.auth = ""
                  THEN {[uid |-> "self", right |-> "RIGHT_GATEWAY_LINK"]}
                  ELSE {}
  /\ ret # "no_auth_provided" \/ (req.auth = "" /\ ~cfg.AllowUnauthenticated)

\* C12 witness: a request without Authorization header, on a server that does
\* not allow unauthenticated connections, was refused at the rights step.
C12_Witness ==
  /\ req.auth = ""
  /\ ~cfg.AllowUnauthenticated
  /\ pc = "returned"
  /\ ret = "no_auth_provided"
  /\ ~conn.created

\* ================================================================ BandSpec
\* The band registry and the functions of two band tables
\* (pkg/band/cn_470_510_26_a_rp2_v1_0_0.go, pkg/band/as_923_rp2_v1_0_2.go).
\* A band table is named by the Go variable that holds it.

\* ---------------------------------------------------------------- bounds
\* Highest uplink data-rate index given to Rx1DataRate.
MaxDataRateIndex == 8
\* Highest RX1 data-rate offset given to Rx1DataRate.
MaxDataRateOffset == 8
\* Channels a channel set given to the channel-mask codec switches on (or,
\* for the complemented sets, off).
MaxEnabled == 2

\* ------------------------------------------------------------- registry
\* var All (lines 126-235): region id -> PHY version -> band table.
All ==
  "AS_923" :>
    ("RP001_V1_0_2" :> "AS_923_RP1_v1_0_2" @@
     "RP001_V1_0_2_REV_B" :> "AS_923_RP1_v1_0_2_RevB" @@
     "RP001_V1_0_3_REV_A" :> "AS_923_RP1_v1_0_3_RevA" @@
     "RP001_V1_1_REV_A" :> "AS_923_RP1_v1_1_RevA" @@
     "RP001_V1_1_REV_B" :> "AS_923_RP1_v1_1_RevB" @@
     "RP002_V1_0_0" :> "AS_923_RP2_v1_0_0") @@
  "AU_915_928" :>
    ("TS001_V1_0_1" :> "AU_915_928_TS1_v1_0_1" @@
     "RP001_V1_0_2" :> "AU_915_928_RP1_v1_0_2" @@
     "RP001_V1_0_2_REV_B" :> "AU_915_928_RP1_v1_0_2_RevB" @@
     "RP001_V1_0_3_REV_A" :> "AU_915_928_RP1_v1_0_3_RevA" @@
     "RP001_V1_1_REV_A" :> "AU_915_928_RP1_v1_1_RevA" @@
     "RP001_V1_1_REV_B" :> "AU_915_928_RP1_v1_1_RevB" @@
     "RP002_V1_0_0" :> "AU_915_928_RP2_v1_0_0") @@
  "CN_470_510" :>
    ("TS001_V1_0_1" :> "CN_470_510_TS1_v1_0_1" @@
     "RP001_V1_0_2" :> "CN_470_510_RP1_v1_0_2" @@
     "RP001_V1_0_2_REV_B" :> "CN_470_510_RP1_v1_0_2_RevB" @@
     "RP001_V1_0_3_REV_A" :> "CN_470_510_RP1_v1_0_3_RevA" @@
     "RP001_V1_1_REV_A" :> "CN_470_510_RP1_v1_1_RevA" @@
     "RP001_V1_1_REV_B" :> "CN_470_510_RP1_v1_1_RevB") @@
  "CN_470_510_20_A" :>
    ("RP002_V1_0_0" :> "CN_470_510_20_A_RP2_v1_0_0") @@
  "CN_470_510_20_B" :>
    ("RP002_V1_0_0" :> "CN_470_510_20_B_RP2_v1_0_0") @@
  "CN_470_510_26_A" :>
    ("RP002_V1_0_0" :> "CN_470_510_26_A_RP2_v1_0_0") @@
  "CN_470_510_26_B" :>
    ("RP002_V1_0_0" :> "CN_470_510_26_B_RP2_v1_0_0") @@
  "CN_779_787" :>
    ("TS001_V1_0" :> "CN_779_787_RP1_V1_0" @@
     "TS001_V1_0_1" :> "CN_779_787_RP1_V1_0_1" @@
     "RP001_V1_0_2" :> "CN_779_787_RP1_V1_0_2" @@
     "RP001_V1_0_2_REV_B" :> "CN_779_787_RP1_V1_0_2_RevB" @@
     "RP001_V1_0_3_REV_A" :> "CN_779_787_RP1_V1_0_3_RevA" @@
     "RP001_V1_1_REV_A" :> "CN_779_787_RP1_V1_1_RevA" @@
     "RP001_V1_1_REV_B" :> "CN_779_787_RP1_V1_1_RevB" @@
     "RP002_V1_0_0" :> "CN_779_787_RP2_V1_0_0") @@
  "EU_433" :>
    ("TS001_V1_0" :> "EU_433_TS1_V1_0" @@
     "TS001_V1_0_1" :> "EU_433_TS1_V1_0_1" @@
     "RP001_V1_0_2" :> "EU_433_RP1_V1_0_2" @@
     "RP001_V1_0_2_REV_B" :> "EU_433_RP1_V1_0_2_Rev_B" @@
     "RP001_V1_0_3_REV_A" :> "EU_433_RP1_V1_0_3_Rev_A" @@
     "RP001_V1_1_REV_A" :> "EU_433_RP1_V1_1_Rev_A" @@
     "RP001_V1_1_REV_B" :> "EU_433_RP1_V1_1_Rev_B" @@
     "RP002_V1_0_0" :> "EU_433_RP2_V1_0_0") @@
  "EU_863_870" :>
    ("TS001_V1_0" :> "EU_863_870_TS1_V1_0" @@
     "TS001_V1_0_1" :> "EU_863_870_TS1_V1_0_1" @@
     "RP001_V1_0_2" :> "EU_863_870_RP1_V1_0_2" @@
     "RP001_V1_0_2_REV_B" :> "EU_863_870_RP1_V1_0_2_Rev_B" @@
     "RP001_V1_0_3_REV_A" :> "EU_863_870_RP1_V1_0_3_Rev_A" @@
     "RP001_V1_1_REV_A" :> "EU_863_870_RP1_V1_1_Rev_A" @@
     "RP001_V1_1_REV_B" :> "EU_863_870_RP1_V1_1_Rev_B" @@
     "RP002_V1_0_0" :> "EU_863_870_RP2_V1_0_0") @@
  "IN_865_867" :>
    ("RP001_V1_0_2_REV_B" :> "IN_865_867_RP1_V1_0_2_Rev_B" @@
     "RP001_V1_0_3_REV_A" :> "IN_865_867_RP1_V1_0_3_Rev_A" @@
     "RP001_V1_1_REV_A" :> "IN_865_867_RP1_V1_1_Rev_A" @@
     "RP001_V1_1_REV_B" :> "IN_865_867_RP1_V1_1_Rev_B" @@
     "RP002_V1_0_0" :> "IN_865_867_RP2_V1_0_0") @@
  "ISM_2400" :>
    ("TS001_V1_0" :> "ISM_2400_Universal" @@
     "TS001_V1_0_1" :> "ISM_2400_Universal" @@
     "RP001_V1_0_2" :> "ISM_2400_Universal" @@
     "RP001_V1_0_2_REV_B" :> "ISM_2400_Universal" @@
     "RP001_V1_0_3_REV_A" :> "ISM_2400_Universal" @@
     "RP001_V1_1_REV_A" :> "ISM_2400_Universal" @@
     "RP001_V1_1_REV_B" :> "ISM_2400_Universal" @@
     "RP002_V1_0_0" :> "ISM_2400_Universal") @@
  "KR_920_923" :>
    ("RP001_V1_0_2" :> "KR_920_923_RP1_V1_0_2" @@
     "RP001_V1_0_2_REV_B" :> "KR_920_923_RP1_V1_0_2_Rev_B" @@
     "RP001_V1_0_3_REV_A" :> "KR_920_923_RP1_V1_0_3_Rev_A" @@
     "RP001_V1_1_REV_A" :> "KR_920_923_RP1_V1_1_Rev_A" @@
     "RP001_V1_1_REV_B" :> "KR_920_923_RP1_V1_1_Rev_B" @@
     "RP002_V1_0_0" :> "KR_920_923_RP2_V1_0_0") @@
  "RU_864_870" :>
    ("RP001_V1_0_3_REV_A" :> "RU_864_870_RP1_V1_0_3_Rev_A" @@
     "RP001_V1_1_REV_A" :> "RU_864_870_RP1_V1_1_Rev_A" @@
     "RP001_V1_1_REV_B" :> "RU_864_870_RP1_V1_1_Rev_B" @@
     "RP002_V1_0_0" :> "RU_864_870_RP2_V1_0_0") @@
  "US_902_928" :>
    ("TS001_V1_0" :> "US_902_928_TS1_V1_0" @@
     "TS001_V1_0_1" :> "US_902_928_TS1_V1_0_1" @@
     "RP001_V1_0_2" :> "US_902_928_RP1_V1_0_2" @@
     "RP001_V1_0_2_REV_B" :> "US_902_928_RP1_V1_0_2_Rev_B" @@
     "RP001_V1_0_3_REV_A" :> "US_902_928_RP1_V1_0_3_Rev_A" @@
     "RP001_V1_1_REV_A" :> "US_902_928_RP1_V1_1_Rev_A" @@
     "RP001_V1_1_REV_B" :> "US_902_928_RP1_V1_1_Rev_B" @@
     "RP002_V1_0_0" :> "US_902_928_RP2_V1_0_0")

\* Band{}: the zero value Get returns with an error.
NoBand == "Band{}"

\* A lookup that falls back on another version of the region when the one
\* asked for is not registered.
GetAnyVersion(id, version) ==
  IF id \notin DOMAIN All
    THEN [band |-> NoBand, err |-> "band_not_found"]
    ELSE LET versions == All[id]
             v == IF version \in DOMAIN versions
                    THEN version
                    ELSE CHOOSE w \in DOMAIN versions : TRUE
         IN  [band |-> versions[v], err |-> "nil"]

\* func Get (lines 237-248).
Get(id, version) ==
  IF id \notin DOMAIN All
    THEN [band |-> NoBand, err |-> "band_not_found"]
    ELSE LET versions == All[id]
         IN  IF version \notin DOMAIN versions
               THEN [band |-> NoBand, err |-> "band_not_found"]
               ELSE [band |-> versions[version], err |-> "nil"]

\* A latest supported version that is the newest one of the registry.
latestSupportedVersionRP2 == "RP002_V1_0_0"

\* const latestSupportedVersion (line 250).
latestSupportedVersion == "RP001_V1_1_REV_B"

\* The PHY versions of the registry, oldest first.
PHYVersionOrder ==
  <<"TS001_V1_0", "TS001_V1_0_1", "RP001_V1_0_2", "RP001_V1_0_2_REV_B",
    "RP001_V1_0_3_REV_A", "RP001_V1_1_REV_A", "RP001_V1_1_REV_B",
    "RP002_V1_0_0">>

\* A GetLatest that resolves the newest version the region is registered for.
GetLatestRegistered(id) ==
  IF id \notin DOMAIN All
    THEN Get(id, latestSupportedVersion)
    ELSE LET newest == CHOOSE i \in 1..Len(PHYVersionOrder) :
                         /\ PHYVersionOrder[i] \in DOMAIN All[id]
                         /\ \A j \in (i + 1)..Len(PHYVersionOrder) :
                              PHYVersionOrder[j] \notin DOMAIN All[id]
         IN  Get(id, PHYVersionOrder[newest])

\* func GetLatest (lines 252-256).
GetLatest(id) == Get(id, latestSupportedVersion)

\* The region ids given to Get and GetLatest: the registered ones and one
\* that is not.
BandIDs == DOMAIN All \cup {"XX_000_000"}

\* The PHY versions given to Get: those of the registry and the enum's zero
\* value, under which nothing is registered.
PHYVersions ==
  {PHYVersionOrder[i] : i \in 1..Len(PHYVersionOrder)} \cup {"PHY_UNKNOWN"}

\* --------------------------------------------------------- band tables
\* The band tables whose definition is at hand.
BandTables == {"AS_923_RP2_v1_0_2", "CN_470_510_26_A_RP2_v1_0_0"}

\* Band.DataRates: the keys (as_923_rp2_v1_0_2.go lines 44-53,
\* cn_470_510_26_a_rp2_v1_0_0.go lines 41-48).
DataRates(t) == IF t = "AS_923_RP2_v1_0_2" THEN 0..7 ELSE 0..5

\* Band.MaxADRDataRateIndex: DATA_RATE_5 in both tables.
MaxADRDataRateIndex(t) == IF t = "AS_923_RP2_v1_0_2" THEN 5 ELSE 5

\* Band.MaxUplinkChannels.
MaxUplinkChannels(t) == IF t = "AS_923_RP2_v1_0_2" THEN 16 ELSE 48

\* The RX1 data-rate offsets a device of the band can be given: the offsets
\* the AS923 rule folds go up to 7, the CN470 rule accepts up to 5.
DataRateOffsets(t) == IF t = "AS_923_RP2_v1_0_2" THEN 0..7 ELSE 0..5

\* Go's int8(n) of a small integer.
Int8(n) == ((n + 128) % 256) - 128

\* The AS923 rule with DR0 as its floor whatever the dwell-time flag.
as923RP2102Rx1DataRateNoDwellTime(idx, offset, dwellTime) ==
  LET so0 == Int8(offset)
      so == IF so0 > 5 THEN Int8(5 - so0) ELSE so0
      si == Int8(Int8(idx) - so)
  IN  CASE si <= 0 -> [dr |-> 0, err |-> "nil"]
        [] si >= 7 -> [dr |-> 7, err |-> "nil"]
        [] OTHER -> [dr |-> si, err |-> "nil"]

\* The AS923 rule with the offset subtracted as it is given.
as923RP2102Rx1DataRateNoFold(idx, offset, dwellTime) ==
  LET so == Int8(offset)
      si == Int8(Int8(idx) - so)
      minDR == IF dwellTime THEN 2 ELSE 0
  IN  CASE si <= minDR -> [dr |-> minDR, err |-> "nil"]
        [] si >= 7 -> [dr |-> 7, err |-> "nil"]
        [] OTHER -> [dr |-> si, err |-> "nil"]

\* The AS923 rule without its upper clamp.
as923RP2102Rx1DataRateNoUpperClamp(idx, offset, dwellTime) ==
  LET so0 == Int8(offset)
      so == IF so0 > 5 THEN Int8(5 - so0) ELSE so0
      si == Int8(Int8(idx) - so)
      minDR == IF dwellTime THEN 2 ELSE 0
  IN  IF si <= minDR
        THEN [dr |-> minDR, err |-> "nil"]
        ELSE [dr |-> si, err |-> "nil"]

\* as923RP2102Band: Rx1DataRate (as_923_rp2_v1_0_2.go lines 85-103).
as923RP2102Rx1DataRate(idx, offset, dwellTime) ==
  LET so0 == Int8(offset)
      so == IF so0 > 5 THEN Int8(5 - so0) ELSE so0
      si == Int8(Int8(idx) - so)
      minDR == IF dwellTime THEN 2 ELSE 0
  IN  CASE si <= minDR -> [dr |-> minDR, err |-> "nil"]
        [] si >= 7 -> [dr |-> 7, err |-> "nil"]
        [] OTHER -> [dr |-> si, err |-> "nil"]

\* cn470510DownlinkDRTable[idx][offset], for idx and offset in 0..5: the
\* uplink index lowered by the offset, not below DR0.
cn470510DownlinkDRTable(idx, offset) ==
  IF idx - offset > 0 THEN idx - offset ELSE 0

\* The CN470-510 rule with the offset checked before the index.
cn47051026ARx1DataRateOffsetFirst(idx, offset, dwellTime) ==
  IF offset > 5
    THEN [dr |-> 0, err |-> "data_rate_offset_too_high"]
    ELSE IF idx > 5
           THEN [dr |-> 0, err |-> "data_rate_index_too_high"]
           ELSE [dr |-> cn470510DownlinkDRTable(idx, offset), err |-> "nil"]

\* CN_470_510_26_A_RP2_v1_0_0: Rx1DataRate (lines 74-83); the dwell-time
\* flag is not looked at.
cn47051026ARx1DataRate(idx, offset, dwellTime) ==
  IF idx > 5
    THEN [dr |-> 0, err |-> "data_rate_index_too_high"]
    ELSE IF offset > 5
           THEN [dr |-> 0, err |-> "data_rate_offset_too_high"]
           ELSE [dr |-> cn470510DownlinkDRTable(idx, offset), err |-> "nil"]

\* Band.Rx1DataRate of table t.
Rx1DataRate(t, idx, offset, dwellTime) ==
  IF t = "AS_923_RP2_v1_0_2"
    THEN as923RP2102Rx1DataRate(idx, offset, dwellTime)
    ELSE cn47051026ARx1DataRate(idx, offset, dwellTime)

\* Tables whose Beacon.ComputeFrequency is nil, the beacon frequency depending
\* on a join channel index the table does not have: the CN470-510 20 MHz and
\* 26 MHz plans (CN_470_510_26_A_RP2_v1_0_0: lines 90-96).
NilComputeFrequency ==
  {"CN_470_510_20_A_RP2_v1_0_0", "CN_470_510_20_B_RP2_v1_0_0",
   "CN_470_510_26_A_RP2_v1_0_0", "CN_470_510_26_B_RP2_v1_0_0"}

\* ---------------------------------------------------- channel-mask codec
RECURSIVE Pow2(_)
Pow2(n) == IF n = 0 THEN 1 ELSE 2 * Pow2(n - 1)

\* The bits i..15 of the mask of block cntl, as a number: bit i is channel
\* 16 * cntl + i.
RECURSIVE MaskFrom(_, _, _)
MaskFrom(chs, cntl, i) ==
  IF i = 16
    THEN 0
    ELSE (IF 16 * cntl + i \in chs THEN 1 ELSE 0) + 2 * MaskFrom(chs, cntl, i + 1)

\* The 16-bit mask of block cntl.
BlockMask(chs, cntl) == MaskFrom(chs, cntl, 0)

\* The channels a mask switches on in block cntl.
MaskChannels(mask, cntl) ==
  {16 * cntl + i : i \in {j \in 0..15 : (mask \div Pow2(j)) % 2 = 1}}

\* generateChMask16: one ChMaskCntlPair, ChMaskCntl 0.
generateChMask16(desired) == <<[Cntl |-> 0, Mask |-> BlockMask(desired, 0)]>>

\* generateChMask48: three ChMaskCntlPairs, ChMaskCntl 0, 1 and 2.
generateChMask48(desired) ==
  [i \in 1..3 |-> [Cntl |-> i - 1, Mask |-> BlockMask(desired, i - 1)]]

\* parseChMask16.
parseChMask16(mask, cntl) == MaskChannels(mask, 0)

\* A parseChMask48 that reads every mask as the mask of the first block.
parseChMask48FirstBlock(mask, cntl) == MaskChannels(mask, 0)

\* parseChMask48.
parseChMask48(mask, cntl) == MaskChannels(mask, cntl)

\* Band.GenerateChMasks and Band.ParseChMask of table t
\* (as_923_rp2_v1_0_2.go lines 105-106, cn_470_510_26_a_rp2_v1_0_0.go lines 85-86).
GenerateChMasks(t, desired) ==
  IF t = "AS_923_RP2_v1_0_2"
    THEN generateChMask16(desired)
    ELSE generateChMask48(desired)

ParseChMask(t, mask, cntl) ==
  IF t = "AS_923_RP2_v1_0_2"
    THEN parseChMask16(mask, cntl)
    ELSE parseChMask48(mask, cntl)

\* The ways to pick k of the channels 0..n-1, as increasing sequences.
RECURSIVE Picks(_, _)
Picks(n, k) ==
  IF k = 0
    THEN {<<>>}
    ELSE {Append(p[1], p[2]) :
            p \in {q \in Picks(n, k - 1) \X (0..(n - 1)) :
                     k = 1 \/ q[2] > q[1][k - 1]}}

\* The channels of a pick.
Channels(pick) == {pick[i] : i \in 1..Len(pick)}

\* The channel set a call of the codec is made with: the picked channels on,
\* or all channels of the band but the picked ones.
Desired(c) ==
  IF c.inverted
    THEN (0..(MaxUplinkChannels(c.table) - 1)) \ Channels(c.pick)
    ELSE Channels(c.pick)

\* ------------------------------------------------------------- the calls
\* The calls of Get, GetLatest, Rx1DataRate and of the channel-mask codec,
\* before they are made.
GetCalls ==
  {[fn |-> "Get", id |-> id, version |-> v, done |-> FALSE, res |-> <<>>] :
     id \in BandIDs, v \in PHYVersions}

GetLatestCalls ==
  {[fn |-> "GetLatest", id |-> id, done |-> FALSE, res |-> <<>>] : id \in BandIDs}

\* Inputs at which the int8 conversions of the AS923 rule wrap around.
WrappingInputs == {127, 128, 133, 255}

Rx1DataRateCalls ==
  {[fn |-> "Rx1DataRate", table |-> t, idx |-> idx, offset |-> offset,
    dwellTime |-> dwellTime, done |-> FALSE, res |-> <<>>] :
     t \in BandTables, idx \in 0..MaxDataRateIndex \cup WrappingInputs,
     offset \in 0..MaxDataRateOffset \cup WrappingInputs,
     dwellTime \in BOOLEAN}

\* The channel sets given to the codec: those with at most MaxEnabled channels
\* on and those with at most MaxEnabled channels off.
ChMaskCalls(t) ==
  {[fn |-> "ChMask", table |-> t, pick |-> p, inverted |-> inv,
    done |-> FALSE, masks |-> <<>>, parsed |-> {}] :
     p \in UNION {Picks(MaxUplinkChannels(t), k) : k \in 0..MaxEnabled},
     inv \in BOOLEAN}

\* One call is about to be made; handleTraffic does not run.
BandInit ==
  /\ req = [idOK |-> TRUE, auth |-> "token"]
  /\ cfg = [AllowUnauthenticated |-> FALSE, TimeSync |-> FALSE]
  /\ NotStarted
  /\ lns = NewSession
  /\ sched = NoSched
  /\ mem = NoStore
  /\ \/ call \in GetCalls
     \/ call \in GetLatestCalls
     \/ call \in Rx1DataRateCalls
     \/ \E t \in BandTables : call \in ChMaskCalls(t)

CallGet ==
  /\ call.fn = "Get"
  /\ ~call.done
  /\ call' = [call EXCEPT !.done = TRUE, !.res = Get(call.id, call.version)]
  /\ UNCHANGED <<wsVars, lns, sched, mem>>

CallGetLatest ==
  /\ call.fn = "GetLatest"
  /\ ~call.done
  /\ call' = [call EXCEPT !.done = TRUE, !.res = GetLatest(call.id)]
  /\ UNCHANGED <<wsVars, lns, sched, mem>>

CallRx1DataRate ==
  /\ call.fn = "Rx1DataRate"
  /\ ~call.done
  /\ call' = [call EXCEPT !.done = TRUE,
                          !.res = Rx1DataRate(call.table, call.idx, call.offset,
                                              call.dwellTime)]
  /\ UNCHANGED <<wsVars, lns, sched, mem>>

\* GenerateChMasks on the desired channels, then ParseChMask on every pair it
\* returned.
CallChMask ==
  /\ call.fn = "ChMask"
  /\ ~call.done
  /\ LET masks == GenerateChMasks(call.table, Desired(call))
     IN  call' = [call EXCEPT
                    !.done = TRUE,
                    !.masks = masks,
                    !.parsed = UNION {ParseChMask(call.table, masks[i].Mask,
                                                  masks[i].Cntl) :
                                      i \in 1..Len(masks)}]
  /\ UNCHANGED <<wsVars, lns, sched, mem>>

BandNext ==
  \/ CallGet
  \/ CallGetLatest
  \/ CallRx1DataRate
  \/ CallChMask

BandSpec == BandInit /\ [][BandNext]_vars

\* ------------------------------------------------------------ properties
\* C13: Get returns the table All registers for exactly the pair (id,
\* version), and fails with band-not-found and the empty Band when the region
\* is not registered or is registered, but not for that version.
C13_GetExactPair ==
  (call.fn = "Get" /\ call.done) =>
    IF call.id \in DOMAIN All /\ call.version \in DOMAIN All[call.id]
      THEN call.res = [band |-> All[call.id][call.version], err |-> "nil"]
      ELSE call.res = [band |-> NoBand, err |-> "band_not_found"]

\* C13 witness: Get was called for a registered region with a version the
\* region is not registered for, and failed.
C13_Witness ==
  /\ call.fn = "Get"
  /\ call.done
  /\ call.id = "CN_470_510_26_A"
  /\ call.version = "RP001_V1_1_REV_B"
  /\ call.res.err = "band_not_found"

\* The regions registered under RP002_V1_0_0 only.
RP2OnlyRegions ==
  {"CN_470_510_20_A", "CN_470_510_20_B", "CN_470_510_26_A", "CN_470_510_26_B"}

ValidRx1Call ==
  /\ call.fn = "Rx1DataRate"
  /\ call.done
  /\ call.idx \in DataRates(call.table)
  /\ call.offset \in DataRateOffsets(call.table)

\* C16 as stated: for valid inputs Rx1DataRate returns a data-rate index
\* between the band's lowest data rate and MaxADRDataRateIndex.
C16_Rx1WithinADRRange ==
  ValidRx1Call =>
    /\ call.res.err = "nil"
    /\ call.res.dr \in 0..MaxADRDataRateIndex(call.table)

\* C16 amended: for valid inputs Rx1DataRate returns a data rate of the band,
\* at least DR2 for AS923 under dwell time: for CN470-510 26 MHz A that is at
\* most MaxADRDataRateIndex (DR5), for AS923 it goes up to DR7.
C16_Rx1WithinDataRates ==
  ValidRx1Call =>
    /\ call.res.err = "nil"
    /\ call.res.dr \in DataRates(call.table)
    /\ (call.table = "AS_923_RP2_v1_0_2" /\ call.dwellTime) => call.res.dr >= 2
    /\ (call.table = "CN_470_510_26_A_RP2_v1_0_0") =>
         call.res.dr <= MaxADRDataRateIndex(call.table)

\* C16 witness: the AS923 rule returned DR7, above MaxADRDataRateIndex, for an
\* uplink at DR5 with RX1 offset 7.
C16_Witness ==
  /\ ValidRx1Call
  /\ call.table = "AS_923_RP2_v1_0_2"
  /\ call.idx = 5
  /\ call.offset = 7
  /\ call.res.dr = 7
  /\ call.res.dr > MaxADRDataRateIndex(call.table)

\* C17 as stated: Rx1DataRate returns an error, not a data rate, whenever the
\* uplink data-rate index or the RX1 offset is outside the band's tables.
C17_OutOfDomainFails ==
  (/\ call.fn = "Rx1DataRate"
   /\ call.done
   /\ \/ call.idx \notin DataRates(call.table)
      \/ call.offset \notin DataRateOffsets(call.table)) =>
    call.res.err # "nil"

\* C18: parsing the masks GenerateChMasks makes of a set of channels gives
\* that set back, for the 16-channel and for the 48-channel codec; the masks
\* are one 16-bit mask per block of 16 channels.
C18_ChMaskRoundTrip ==
  (call.fn = "ChMask" /\ call.done) =>
    /\ call.parsed = Desired(call)
    /\ Len(call.masks) * 16 = MaxUplinkChannels(call.table)
    /\ \A i \in 1..Len(call.masks) :
         /\ call.masks[i].Cntl = i - 1
         /\ call.masks[i].Mask \in 0..(Pow2(16) - 1)

\* C18 witness: a 48-channel set with channels off in the first and in the
\* last block went through the codec and came back.
C18_Witness ==
  /\ call.fn = "ChMask"
  /\ call.done
  /\ call.table = "CN_470_510_26_A_RP2_v1_0_0"
  /\ Desired(call) = (0..47) \ {0, 40}
  /\ call.parsed = Desired(call)

\* =============================================================== ClockSpec
\* The session of one connection as the LNS formatter uses it: the session ID
\* and time sync flag kept in the ws.Session of the context, and the XTime of
\* the time sync responses and downlink messages the formatter makes
\* (TestTransferTime, TestFromDownlinkMessage). lns.sent is the last message
\* made, with the session ID and concentrator time its XTime was built from;
\* lns.seq flips with every message.

\* ---------------------------------------------------------------- bounds
\* Highest session ID.
MaxSessionID == 3
\* Highest concentrator time, in microseconds.
MaxConcentratorTime == 3

\* ---------------------------------------------------------------- XTime
\* The values of the time field of an XTime: the concentrator times fill it.
TimeRange == MaxConcentratorTime + 1

\* An XTime whose session ID overlaps the highest value of the time field.
ConcentratorTimeToXTimeOverlap(id, t) == id * (TimeRange - 1) + t

\* ConcentratorTimeToXTime: the session ID above the time field, the
\* concentrator time in it.
ConcentratorTimeToXTime(id, t) == id * TimeRange + (t % TimeRange)

\* SessionIDFromXTime (line 536).
SessionIDFromXTime(xTime) == xTime \div TimeRange

\* ConcentratorTimeFromXTime (line 537).
ConcentratorTimeFromXTime(xTime) == xTime % TimeRange

\* A session ID taken when the session was made, not when the message is.
SessionIDAtStart(s) == NewSession.ID

\* The session ID the formatter puts in an XTime: the one the session holds
\* when the message is made.
SessionIDOf(s) == s.ID

\* ------------------------------------------------------------- the steps
ClockInit ==
  /\ req = [idOK |-> TRUE, auth |-> "token"]
  /\ cfg = [AllowUnauthenticated |-> FALSE, TimeSync |-> FALSE]
  /\ NotStarted
  /\ call = NoCall
  /\ lns = NewSession
  /\ sched = NoSched
  /\ mem = NoStore

\* updateSessionID(ctx, id) (lines 291, 520).
updateSessionID ==
  /\ \E id \in 0..MaxSessionID : lns' = [lns EXCEPT !.ID = id]
  /\ UNCHANGED <<wsVars, call, sched, mem>>

\* updateSessionTimeSync(ctx, b) (line 500).
updateSessionTimeSync ==
  /\ \E enabled \in BOOLEAN : lns' = [lns EXCEPT !.TimeSync = enabled]
  /\ UNCHANGED <<wsVars, call, sched, mem>>

\* The message of lbsLNS.TransferTime: none for a session without time sync
\* (lines 492-497), MuxTime only when no concentrator time is given (lines
\* 502-517), else an XTime of the session ID and the concentrator time (lines
\* 519-540).
TimeSyncResponse(s, withTime, t) ==
  IF ~s.TimeSync
    THEN NothingSent
    ELSE IF ~withTime
           THEN [kind |-> "timesync", hasXTime |-> FALSE, XTime |-> 0,
                 id |-> 0, t |-> 0]
           ELSE [kind |-> "timesync", hasXTime |-> TRUE,
                 XTime |-> ConcentratorTimeToXTime(SessionIDOf(s), t),
                 id |-> SessionIDOf(s), t |-> t]

lbsLNSTransferTime ==
  /\ \E withTime \in BOOLEAN, t \in 0..MaxConcentratorTime :
       LET msg == TimeSyncResponse(lns, withTime, t)
       IN  /\ withTime \/ t = 0
           /\ IF msg.kind = "nothing"
                THEN UNCHANGED lns
                ELSE lns' = [lns EXCEPT !.sent = msg, !.seq = 1 - @]
  /\ UNCHANGED <<wsVars, call, sched, mem>>

\* lbsLNS.FromDownlink(ctx, down, bandID, concentratorTime, now): the downlink
\* message carries the XTime of the session ID and the concentrator time
\* (line 381).
lbsLNSFromDownlink ==
  /\ \E t \in 0..MaxConcentratorTime :
       lns' = [lns EXCEPT
                 !.seq = 1 - @,
                 !.sent = [kind |-> "dnmsg", hasXTime |-> TRUE,
                           XTime |-> ConcentratorTimeToXTime(SessionIDOf(lns), t),
                           id |-> SessionIDOf(lns), t |-> t]]
  /\ UNCHANGED <<wsVars, call, sched, mem>>

ClockNext ==
  \/ updateSessionID
  \/ updateSessionTimeSync
  \/ lbsLNSTransferTime
  \/ lbsLNSFromDownlink

ClockSpec == ClockInit /\ [][ClockNext]_vars

\* ------------------------------------------------------------ properties
\* C19: the XTime built from a session ID and a concentrator time decodes to
\* exactly that ID and that time, and no other pair of ID and time has the
\* same XTime.
C19_XTimeInvertible ==
  lns.sent.hasXTime =>
    /\ SessionIDFromXTime(lns.sent.XTime) = lns.sent.id
    /\ ConcentratorTimeFromXTime(lns.sent.XTime) = lns.sent.t
    /\ \A id \in 0..MaxSessionID, t \in 0..MaxConcentratorTime :
         (<<id, t>> # <<lns.sent.id, lns.sent.t>>) =>
           (ConcentratorTimeToXTime(id, t) # lns.sent.XTime)

\* C19 witness: a message carries the XTime of a session ID and a
\* concentrator time that are both above zero.
C19_Witness ==
  /\ lns.sent.hasXTime
  /\ lns.sent.id = 2
  /\ lns.sent.t = 3
  /\ SessionIDFromXTime(lns.sent.XTime) = 2
  /\ ConcentratorTimeFromXTime(lns.sent.XTime) = 3

\* C20: the XTime of every time sync response and downlink message decodes to
\* the session ID the session holds when the message is made, whatever IDs
\* the session held before.
C20_XTimeCarriesSessionID ==
  [][(lns'.seq # lns.seq /\ lns'.sent.hasXTime) =>
       /\ lns'.ID = lns.ID
       /\ SessionIDFromXTime(lns'.sent.XTime) = lns.ID]_vars

\* C20 witness: the session ID was updated after a message had gone out under
\* another ID, and the downlink message made since carries the new ID.
C20_Witness ==
  /\ lns.ID = 2
  /\ lns.sent.kind = "dnmsg"
  /\ lns.sent.hasXTime
  /\ SessionIDFromXTime(lns.sent.XTime) = 2

\* ============================================================== SchedSpec
\* The downlink scheduler of one connection (pkg/gatewayserver/scheduling,
\* which ws.go and the formatter's tests use): Schedule takes one request at a
\* time, evaluates its candidate windows against the occupancy of the
\* sub-bands and the committed transmissions of the antennas, and commits
\* one window or rejects the request with a reason.

\* ---------------------------------------------------------------- bounds
\* Latest time (uplink time or absolute time) a request names.
MaxTime == 1
\* Requests given to Schedule.
MaxRequests == 2

\* On-air durations of a transmission (from data rate and payload size).
MaxDuration == 2
\* Class A: RX1 opens ReceiveDelay1 after the uplink, RX2 ReceiveDelay2.
ReceiveDelay1 == 1
ReceiveDelay2 == 2
\* The antennas of the gateway and the sub-bands of the band table.
Antennas == {0, 1}
SubBands == {1, 2}
\* The sub-band that covers the band's fixed RX2 frequency.
RX2SubBand == 2
\* The trailing window over which a sub-band's on-air time is accumulated.
WindowDuration == 4
\* dutyCycle x windowDuration of each sub-band: 50% and 100%.
DutyCycleLimit(sb) == IF sb = 1 THEN 2 ELSE 4

\* A downlink request: class A names the uplink it replies to, class C an
\* absolute time. All candidates of one request share its priority, so the
\* priority decides nothing within one Schedule call and is left out.
Requests ==
  [class : {"A", "C"}, antenna : Antennas, time : 0..MaxTime,
   dur : 1..MaxDuration, sb : SubBands]

NoSlot == [rx |-> 0, start |-> 0, sb |-> 0]

\* Step 1: the candidate windows of a request, in order of preference.
Candidates(r) ==
  IF r.class = "A"
    THEN <<[rx |-> 1, start |-> r.time + ReceiveDelay1, sb |-> r.sb],
           [rx |-> 2, start |-> r.time + ReceiveDelay2, sb |-> RX2SubBand]>>
    ELSE <<[rx |-> 3, start |-> r.time, sb |-> r.sb]>>

\* Two transmissions [s1, s1 + d1) and [s2, s2 + d2) share airtime.
Overlaps(s1, d1, s2, d2) == s1 < s2 + d2 /\ s2 < s1 + d1

Min(x, y) == IF x < y THEN x ELSE y
Max(x, y) == IF x > y THEN x ELSE y

\* The on-air time of emission e that falls in the window (end - W, end].
OnAirIn(e, end) ==
  Max(0, Min(e.start + e.dur, end) - Max(e.start, end - WindowDuration))

RECURSIVE SumOnAir(_, _)
SumOnAir(es, end) ==
  IF es = {} THEN 0
  ELSE LET e == CHOOSE x \in es : TRUE
       IN  OnAirIn(e, end) + SumOnAir(es \ {e}, end)

\* The occupancy of sub-band sb: the accumulated on-air time of the committed
\* transmissions in the trailing window that ends at end.
Occupancy(emissions, sb, end) ==
  SumOnAir({e \in emissions : e.sb = sb}, end)

\* Step 2 with the duty-cycle check left out.
DutyCycleNeverExceeded(emissions, c, dur) == FALSE

\* Step 2: the projected on-air time in the candidate's sub-band, accumulated
\* over the trailing window that ends with the candidate transmission, would
\* exceed the sub-band's duty-cycle fraction of the window.
DutyCycleExceeded(emissions, c, dur) ==
  Occupancy(emissions, c.sb, c.start + dur) + dur > DutyCycleLimit(c.sb)

\* Step 3 comparing against every antenna's transmissions but the request's.
SlotConflictOtherAntenna(emissions, antenna, c, dur) ==
  \E e \in emissions :
    e.antenna # antenna /\ Overlaps(e.start, e.dur, c.start, dur)

\* Step 3: another committed transmission on the same antenna overlaps.
SlotConflict(emissions, antenna, c, dur) ==
  \E e \in emissions :
    e.antenna = antenna /\ Overlaps(e.start, e.dur, c.start, dur)

\* Steps 2 and 3 for one candidate, in that order.
Verdict(emissions, r, c) ==
  IF DutyCycleExceeded(emissions, c, r.dur) THEN "DutyCycleExceeded"
  ELSE IF SlotConflict(emissions, r.antenna, c, r.dur) THEN "SlotConflict"
  ELSE "Eligible"

Eligible(emissions, r) ==
  {i \in DOMAIN Candidates(r) :
     Verdict(emissions, r, Candidates(r)[i]) = "Eligible"}

\* Step 4: the earliest eligible candidate, RX1 before RX2.
Chosen(emissions, r) ==
  LET i == CHOOSE i \in Eligible(emissions, r) :
             \A j \in Eligible(emissions, r) : i <= j
  IN  Candidates(r)[i]

SchedInit ==
  /\ req = [idOK |-> TRUE, auth |-> "token"]
  /\ cfg = [AllowUnauthenticated |-> FALSE, TimeSync |-> FALSE]
  /\ NotStarted
  /\ call = NoCall
  /\ lns = NewSession
  /\ mem = NoStore
  /\ sched = NoSched

\* Schedule(request, ...): Idle -> Evaluating.
Schedule ==
  /\ sched.state = "Idle"
  /\ Len(sched.log) < MaxRequests
  /\ \E r \in Requests : sched' = [sched EXCEPT !.state = "Evaluating", !.req = r]
  /\ UNCHANGED <<wsVars, call, lns, mem>>

\* Step 5, success: Committed, the occupancy updated, the slot returned.
Commit ==
  /\ sched.state = "Evaluating"
  /\ Eligible(sched.emissions, sched.req) # {}
  /\ LET c == Chosen(sched.emissions, sched.req)
     IN  sched' = [sched EXCEPT
                     !.state = "Committed",
                     !.emissions = @ \cup {[antenna |-> sched.req.antenna,
                                            sb |-> c.sb, start |-> c.start,
                                            dur |-> sched.req.dur]},
                     !.log = Append(@, [req |-> sched.req,
                                        outcome |-> "Committed", slot |-> c])]
  /\ UNCHANGED <<wsVars, call, lns, mem>>

\* Step 5, failure: no candidate is eligible; the reason recorded is the
\* reason of one of the candidates.
Reject ==
  /\ sched.state = "Evaluating"
  /\ Eligible(sched.emissions, sched.req) = {}
  /\ \E i \in DOMAIN Candidates(sched.req) :
       sched' = [sched EXCEPT
                   !.state = "Rejected",
                   !.log = Append(@, [req |-> sched.req,
                                      outcome |-> Verdict(sched.emissions, sched.req,
                                                          Candidates(sched.req)[i]),
                                      slot |-> NoSlot])]
  /\ UNCHANGED <<wsVars, call, lns, mem>>

\* The result is reported to the caller and the scheduler is Idle again.
ReturnToIdle ==
  /\ sched.state \in {"Committed", "Rejected"}
  /\ sched' = [sched EXCEPT !.state = "Idle", !.req = NoRequest]
  /\ UNCHANGED <<wsVars, call, lns, mem>>

SchedNext ==
  \/ Schedule
  \/ Commit
  \/ Reject
  \/ ReturnToIdle

SchedSpec == SchedInit /\ [][SchedNext]_vars

\* ---------------------------------------------------- SchedSpec properties
\* The transmission a Committed entry of the log reserved.
EmissionOf(l) ==
  [antenna |-> l.req.antenna, sb |-> l.slot.sb, start |-> l.slot.start,
   dur |-> l.req.dur]

\* The committed transmissions when the k-th request was evaluated.
EmissionsBefore(k) ==
  {EmissionOf(sched.log[m]) :
     m \in {n \in 1..(k - 1) : sched.log[n].outcome = "Committed"}}

\* Two requests ask for the same antenna and every window of one overlaps
\* every window of the other.
WindowsOverlap(r1, r2) ==
  /\ r1.antenna = r2.antenna
  /\ \A a \in DOMAIN Candidates(r1), c \in DOMAIN Candidates(r2) :
       Overlaps(Candidates(r1)[a].start, r1.dur, Candidates(r2)[c].start, r2.dur)

\* Committing window c of the k-th request would have made the on-air time
\* accumulated in c's sub-band exceed dutyCycle x windowDuration.
Exceeds(k, c) ==
  Occupancy(EmissionsBefore(k), c.sb, c.start + sched.log[k].req.dur)
    + sched.log[k].req.dur > DutyCycleLimit(c.sb)

\* The windows of the k-th request.
WindowsOf(k) ==
  {Candidates(sched.log[k].req)[a] : a \in DOMAIN Candidates(sched.log[k].req)}

\* No window of the k-th request exceeded its sub-band's duty cycle.
WithinDutyCycle(k) == \A c \in WindowsOf(k) : ~Exceeds(k, c)

\* The k-th request is the first on its antenna.
FirstOnAntenna(k) ==
  \A m \in 1..(k - 1) : sched.log[m].req.antenna # sched.log[k].req.antenna

Conflicts(k, c) ==
  \E e \in EmissionsBefore(k) :
    /\ e.antenna = sched.log[k].req.antenna
    /\ Overlaps(e.start, e.dur, c.start, sched.log[k].req.dur)

Users == {"test-user"}
MissingUsers == {"test-usr-not-found"}
Applications == {"test-app"}
MissingApplications == {"test-app-not-found"}
\* Organization IDs: test-org exists from the start, new-org can be created,
\* and admin is an ID the blacklist refuses.
OrganizationIDs == {"test-org", "new-org"}
BlacklistedIDs == {"admin"}

\* The accounts and the entities the store is called with.
AccountIDs == Users \cup MissingUsers \cup {"test-org"}
EntityIDs == Applications \cup MissingApplications \cup {"test-org"}
EntityTypes == {"application", "organization"}

AccountType(a) == IF a \in Users \cup MissingUsers THEN "user" ELSE "organization"
EntityType(e) ==
  IF e \in Applications \cup MissingApplications THEN "application"
  ELSE "organization"

\* The rights of the tests' calls (Rights, RightsUpdated, none), and RIGHT_ALL.
RightSets == {{}, {"INFO"}, {"INFO", "SETTINGS_BASIC"}}
RIGHT_ALL == {"ALL"}

AccountExists(m, a) == a \in Users \/ a \in m.orgs
EntityExists(m, e) == e \in Applications \/ e \in m.orgs

\* The memberships of m other than that of account a on entity e.
Others(m, a, e) == {x \in m.members : ~(x.account = a /\ x.entity = e)}

\* SetMember that keeps the membership when the rights are empty.
SetMemberKeepsEmpty(m, a, e, R) ==
  IF ~AccountExists(m, a) \/ ~EntityExists(m, e)
    THEN [members |-> m.members, err |-> "NotFound"]
  ELSE IF EntityType(e) = "organization" /\ AccountType(a) # "user"
    THEN [members |-> m.members, err |-> "InvalidArgument"]
    ELSE [members |-> IF R = {} THEN m.members
                      ELSE Others(m, a, e) \cup
                             {[account |-> a, entity |-> e, rights |-> R]},
          err |-> "nil"]

\* SetMember that creates the membership before it looks the entity up.
SetMemberBeforeLookup(m, a, e, R) ==
  IF ~AccountExists(m, a)
    THEN [members |-> m.members, err |-> "NotFound"]
  ELSE IF EntityType(e) = "organization" /\ AccountType(a) # "user"
    THEN [members |-> m.members, err |-> "InvalidArgument"]
    ELSE [members |-> IF R = {} THEN Others(m, a, e)
                      ELSE Others(m, a, e) \cup
                             {[account |-> a, entity |-> e, rights |-> R]},
          err |-> IF EntityExists(m, e) THEN "nil" ELSE "NotFound"]

\* store.SetMember(ctx, id, entityID, rights): NotFound for an account or an
\* entity that does not exist (lines 437-456, 507-526), InvalidArgument for an
\* organization on an organization (lines 373-385); else the rights replace
\* those of the membership, and empty rights delete it (lines 305-363).
SetMember(m, a, e, R) ==
  IF ~AccountExists(m, a) \/ ~EntityExists(m, e)
    THEN [members |-> m.members, err |-> "NotFound"]
  ELSE IF EntityType(e) = "organization" /\ AccountType(a) # "user"
    THEN [members |-> m.members, err |-> "InvalidArgument"]
    ELSE [members |-> IF R = {} THEN Others(m, a, e)
                      ELSE Others(m, a, e) \cup
                             {[account |-> a, entity |-> e, rights |-> R]},
          err |-> "nil"]

\* store.GetMember(ctx, id, entityID): the rights of the membership, NotFound
\* when there is none (lines 293-297, 312-315).
GetMember(m, a, e) ==
  IF \E x \in m.members : x.account = a /\ x.entity = e
    THEN [err |-> "nil",
          res |-> (CHOOSE x \in m.members : x.account = a /\ x.entity = e).rights]
    ELSE [err |-> "NotFound", res |-> {}]

\* store.FindMemberships(ctx, id, entityType, false): the entities of that
\* type the account is a direct member of (lines 299-303, 317-323).
FindMemberships(m, a, type) ==
  {x.entity : x \in {y \in m.members : y.account = a /\ EntityType(y.entity) = type}}

\* store.FindMembers(ctx, entityID): the accounts that are members of the
\* entity, with their rights (lines 325-333).
FindMembers(m, e) ==
  {[account |-> x.account, rights |-> x.rights] :
     x \in {y \in m.members : y.entity = e}}

\* DeleteEntityMembers that deletes the memberships of every entity.
DeleteEntityMembersAll(m, e) == {}

\* store.DeleteEntityMembers(ctx, entityID) (lines 574-580).
DeleteEntityMembers(m, e) == {x \in m.members : x.entity # e}

\* store.DeleteAccountMembers(ctx, id) (lines 582-593).
DeleteAccountMembers(m, a) == {x \in m.members : x.account # a}

MemberInit ==
  /\ req = [idOK |-> TRUE, auth |-> "token"]
  /\ cfg = [AllowUnauthenticated |-> FALSE, TimeSync |-> FALSE]
  /\ NotStarted
  /\ call = NoCall
  /\ lns = NewSession
  /\ sched = NoSched
  /\ mem = NoStore

\* The record of a call made on the store itself.
StoreCall(op, a, e, R, er, res) ==
  [op |-> op, account |-> a, entity |-> e, rights |-> R, flags |-> {},
   err |-> er, stored |-> TRUE, res |-> res]

CallSetMember ==
  /\ \E a \in AccountIDs, e \in EntityIDs, R \in RightSets :
       LET r == SetMember(mem, a, e, R)
       IN  mem' = [mem EXCEPT !.members = r.members,
                              !.last = StoreCall("SetMember", a, e, R, r.err, {})]
  /\ UNCHANGED <<wsVars, call, lns, sched>>

CallGetMember ==
  /\ \E a \in AccountIDs, e \in EntityIDs :
       LET r == GetMember(mem, a, e)
       IN  mem' = [mem EXCEPT !.last = StoreCall("GetMember", a, e, {}, r.err, r.res)]
  /\ UNCHANGED <<wsVars, call, lns, sched>>

CallFindMemberships ==
  /\ \E a \in AccountIDs, type \in EntityTypes :
       mem' = [mem EXCEPT
                 !.last = StoreCall("FindMemberships", a, type, {}, "nil",
                                    FindMemberships(mem, a, type))]
  /\ UNCHANGED <<wsVars, call, lns, sched>>

CallFindMembers ==
  /\ \E e \in EntityIDs :
       mem' = [mem EXCEPT
                 !.last = StoreCall("FindMembers", "", e, {}, "nil",
                                    FindMembers(mem, e))]
  /\ UNCHANGED <<wsVars, call, lns, sched>>

CallDeleteEntityMembers ==
  /\ \E e \in EntityIDs :
       mem' = [mem EXCEPT
                 !.members = DeleteEntityMembers(mem, e),
                 !.last = StoreCall("DeleteEntityMembers", "", e, {}, "nil", {})]
  /\ UNCHANGED <<wsVars, call, lns, sched>>

CallDeleteAccountMembers ==
  /\ \E a \in AccountIDs :
       mem' = [mem EXCEPT
                 !.members = DeleteAccountMembers(mem, a),
                 !.last = StoreCall("DeleteAccountMembers", a, "", {}, "nil", {})]
  /\ UNCHANGED <<wsVars, call, lns, sched>>

\* ---------------------------------------------- the organization registry
\* What a handler of the registry returns when it fails before it opens the
\* database transaction.
Refused(m, er) == [members |-> m.members, orgs |-> m.orgs, err |-> er,
                   stored |-> FALSE, res |-> {}, events |-> <<>>]

\* events.Publish of the event the handler made, after its transaction.
PublishEvent(r, name) == [r EXCEPT !.events = Append(@, name)]

\* The transaction of createOrganization (lines 88-108): CreateOrganization,
\* then SetMember of the collaborator with RIGHT_ALL; an error of either rolls
\* the transaction back.
createOrganizationTx(m, id, collaborator) ==
  IF id \in m.orgs
    THEN [members |-> m.members, orgs |-> m.orgs, err |-> "AlreadyExists",
          stored |-> TRUE, res |-> {}, events |-> <<>>]
    ELSE LET r == SetMember([m EXCEPT !.orgs = @ \cup {id}], collaborator, id,
                            RIGHT_ALL)
         IN  IF r.err # "nil"
               THEN [members |-> m.members, orgs |-> m.orgs, err |-> r.err,
                     stored |-> TRUE, res |-> {}, events |-> <<>>]
               ELSE [members |-> r.members, orgs |-> m.orgs \cup {id},
                     err |-> "nil", stored |-> TRUE, res |-> {id},
                     events |-> <<>>]

\* createOrganization without the branch of line 83.
createOrganizationNoNestedCheck(m, id, collaborator, flags) ==
  IF id \in BlacklistedIDs THEN Refused(m, "blacklisted_id")
  ELSE IF AccountType(collaborator) = "user" /\ "admin" \notin flags
          /\ "CreateOrganizations" \notin flags
    THEN Refused(m, "admins_create_organizations")
  ELSE IF AccountType(collaborator) = "user" /\ "userRights" \notin flags
    THEN Refused(m, "insufficient_rights")
  ELSE LET r == createOrganizationTx(m, id, collaborator)
       IN  IF r.err # "nil" THEN r ELSE PublishEvent(r, "organization.create")

\* is.createOrganization (lines 71-113): the blacklist (72-74), the
\* collaborator (75-85: a user needs admin or UserRights.CreateOrganizations
\* and RIGHT_USER_ORGANIZATIONS_CREATE, an organization is refused), then the
\* transaction and, when it returned no error, the event (113). The
\* requests carry no contact info, so lines 85-87 pass and lines 99-105 are
\* skipped.
createOrganization(m, id, collaborator, flags) ==
  IF id \in BlacklistedIDs THEN Refused(m, "blacklisted_id")
  ELSE IF AccountType(collaborator) = "user" /\ "admin" \notin flags
          /\ "CreateOrganizations" \notin flags
    THEN Refused(m, "admins_create_organizations")
  ELSE IF AccountType(collaborator) = "user" /\ "userRights" \notin flags
    THEN Refused(m, "insufficient_rights")
  ELSE IF AccountType(collaborator) = "organization"
    THEN Refused(m, "nested_organizations")
  ELSE LET r == createOrganizationTx(m, id, collaborator)
       IN  IF r.err # "nil" THEN r ELSE PublishEvent(r, "organization.create")

\* req.Collaborator of listOrganizations after lines 154-157: the caller's
\* account when the request names none ("" is nil).
Collaborator(collaborator, caller) ==
  IF collaborator = "" THEN caller ELSE collaborator

\* is.listOrganizations (lines 147-223): the auth info (150-153), the
\* collaborator (154-160), its kind (162-168), then the transaction: the
\* organizations among the direct memberships of the collaborator (186-208).
\* Order, pagination and the PublicSafe filter of lines 215-220 change what
\* is shown of an organization, not which ones are listed.
listOrganizations(m, collaborator, caller, flags) ==
  LET c == Collaborator(collaborator, caller)
  IN  IF "authInfoFails" \in flags THEN Refused(m, "unauthenticated")
      ELSE IF c = "" THEN Refused(m, "nil")
      ELSE IF AccountType(c) = "user" /\ "userRights" \notin flags
        THEN Refused(m, "insufficient_rights")
      ELSE IF AccountType(c) = "organization"
        THEN Refused(m, "nested_organizations")
      ELSE [members |-> m.members, orgs |-> m.orgs, err |-> "nil",
            stored |-> TRUE,
            res |-> FindMemberships(m, c, "organization") \cap m.orgs,
            events |-> <<>>]

\* is.purgeOrganization (lines 299-324): admins only (300-302); the
\* transaction deletes the memberships the organization holds as an account
\* (313) and purges the organization (317), after which no membership on it
\* can be found either; purging an organization that does not exist fails
\* and rolls back; after the transaction the event is published (322).
purgeOrganization(m, id, flags) ==
  IF "admin" \notin flags THEN Refused(m, "admins_purge_organizations")
  ELSE IF id \notin m.orgs
    THEN [members |-> m.members, orgs |-> m.orgs, err |-> "NotFound",
          stored |-> TRUE, res |-> {}, events |-> <<>>]
    ELSE PublishEvent(
           [members |-> {x \in DeleteAccountMembers(m, id) : x.entity # id},
            orgs |-> m.orgs \ {id}, err |-> "nil", stored |-> TRUE, res |-> {},
            events |-> <<>>],
           "organization.purge")

\* The record of a call made on the registry.
RegistryCall(op, a, e, flags, r) ==
  [op |-> op, account |-> a, entity |-> e, rights |-> {}, flags |-> flags,
   err |-> r.err, stored |-> r.stored, res |-> r.res]

CallCreateOrganization ==
  /\ \E id \in OrganizationIDs \cup BlacklistedIDs,
        collaborator \in Users \cup {"test-org"},
        flags \in SUBSET {"admin", "CreateOrganizations", "userRights"} :
       LET r == createOrganization(mem, id, collaborator, flags)
       IN  mem' = [members |-> r.members, orgs |-> r.orgs,
                   last |-> RegistryCall("createOrganization", collaborator, id,
                                         flags, r)]
  /\ UNCHANGED <<wsVars, call, lns, sched>>

CallListOrganizations ==
  /\ \E collaborator \in {"", "test-user", "test-org"},
        caller \in {"", "test-user", "test-org"},
        flags \in SUBSET {"authInfoFails", "userRights"} :
       LET r == listOrganizations(mem, collaborator, caller, flags)
       IN  mem' = [members |-> r.members, orgs |-> r.orgs,
                   last |-> RegistryCall("listOrganizations",
                                         Collaborator(collaborator, caller), "",
                                         flags, r)]
  /\ UNCHANGED <<wsVars, call, lns, sched>>

CallPurgeOrganization ==
  /\ \E id \in OrganizationIDs, flags \in SUBSET {"admin"} :
       LET r == purgeOrganization(mem, id, flags)
       IN  mem' = [members |-> r.members, orgs |-> r.orgs,
                   last |-> RegistryCall("purgeOrganization", "", id, flags, r)]
  /\ UNCHANGED <<wsVars, call, lns, sched>>

MemberNext ==
  \/ CallSetMember
  \/ CallGetMember
  \/ CallFindMemberships
  \/ CallFindMembers
  \/ CallDeleteEntityMembers
  \/ CallDeleteAccountMembers
  \/ CallCreateOrganization
  \/ CallListOrganizations
  \/ CallPurgeOrganization

MemberSpec == MemberInit /\ [][MemberNext]_vars

\* --------------------------------------------------- MemberSpec properties
\* The memberships of account a on entity e in the store.
Held(a, e) == {x \in mem.members : x.account = a /\ x.entity = e}

\* C23: the memberships are a map from (account, entity) to non-empty
\* rights. GetMember is NotFound exactly where the map has no entry, and
\* returns the entry's rights otherwise. After SetMember(a, e, R) with
\* non-empty R the entry of (a, e) is R, whatever it was before:
\* FindMemberships(a, type of e) holds e, and only e when a has no other
\* membership of that type; FindMembers(e) holds a with R, and only that when
\* e has no other member. After SetMember(a, e, no rights) there is no entry:
\* GetMember is NotFound and FindMemberships does not hold e. After
\* createOrganization the collaborator holds RIGHT_ALL on the organization.
C23_MembershipsAreAMap ==
  /\ \A x, y \in mem.members :
       /\ x.rights # {}
       /\ (x.account = y.account /\ x.entity = y.entity) => x = y
  /\ mem.last.op = "GetMember" =>
       IF Held(mem.last.account, mem.last.entity) = {}
         THEN mem.last.err = "NotFound"
         ELSE /\ mem.last.err = "nil"
              /\ \E x \in Held(mem.last.account, mem.last.entity) :
                   mem.last.res = x.rights
  /\ (mem.last.op = "SetMember" /\ mem.last.err = "nil" /\ mem.last.rights # {}) =>
       LET a == mem.last.account
           e == mem.last.entity
           R == mem.last.rights
       IN  /\ GetMember(mem, a, e) = [err |-> "nil", res |-> R]
           /\ e \in FindMemberships(mem, a, EntityType(e))
           /\ (\A x \in mem.members :
                 (x.account = a /\ EntityType(x.entity) = EntityType(e)) => x.entity = e)
                => FindMemberships(mem, a, EntityType(e)) = {e}
           /\ [account |-> a, rights |-> R] \in FindMembers(mem, e)
           /\ (\A x \in mem.members : x.entity = e => x.account = a)
                => FindMembers(mem, e) = {[account |-> a, rights |-> R]}
  /\ (mem.last.op = "SetMember" /\ mem.last.err = "nil" /\ mem.last.rights = {}) =>
       /\ GetMember(mem, mem.last.account, mem.last.entity).err = "NotFound"
       /\ mem.last.entity \notin
            FindMemberships(mem, mem.last.account, EntityType(mem.last.entity))
       /\ Held(mem.last.account, mem.last.entity) = {}
  /\ (mem.last.op = "createOrganization" /\ mem.last.err = "nil") =>
       /\ GetMember(mem, mem.last.account, mem.last.entity)
            = [err |-> "nil", res |-> RIGHT_ALL]
       /\ mem.last.entity \in mem.orgs

\* SetMember has given an account the updated rights of the tests on an
\* entity, and GetMember returns them.
C23_Witness ==
  /\ mem.last.op = "SetMember"
  /\ mem.last.err = "nil"
  /\ mem.last.rights = {"INFO", "SETTINGS_BASIC"}
  /\ GetMember(mem, mem.last.account, mem.last.entity).res = {"INFO", "SETTINGS_BASIC"}
  /\ FindMemberships(mem, mem.last.account, EntityType(mem.last.entity)) = {mem.last.entity}
  /\ Cardinality(mem.members) > 1

\* The last call named an organization as the account (the collaborator).
ByOrganization ==
  mem.last.account # "" /\ AccountType(mem.last.account) = "organization"

\* C24 as stated: SetMember of an organization on an organization fails with
\* InvalidArgument and creates no membership; createOrganization and
\* listOrganizations with an organization as collaborator fail with
\* nested_organizations and do not reach the database.
C24_NestedFailsWithNestedOrganizations ==
  /\ (/\ mem.last.op = "SetMember"
      /\ ByOrganization
      /\ EntityType(mem.last.entity) = "organization"
      /\ AccountExists(mem, mem.last.account)
      /\ EntityExists(mem, mem.last.entity)) =>
       /\ mem.last.err = "InvalidArgument"
       /\ Held(mem.last.account, mem.last.entity) = {}
  /\ (mem.last.op \in {"createOrganization", "listOrganizations"} /\ ByOrganization) =>
       /\ mem.last.err = "nested_organizations"
       /\ ~mem.last.stored

\* C24, amended: no organization is ever a member of an organization.
\* SetMember of an existing organization on an existing organization fails
\* with InvalidArgument and creates no membership. createOrganization and
\* listOrganizations with an organization as collaborator fail without
\* reaching the database, creating or listing nothing: with
\* nested_organizations, unless an earlier check has failed already, which is
\* the blacklist on the new ID in createOrganization and the caller's auth
\* info in listOrganizations.
C24_NoNestedOrganizations ==
  /\ \A x \in mem.members :
       ~(AccountType(x.account) = "organization"
         /\ EntityType(x.entity) = "organization")
  /\ (/\ mem.last.op = "SetMember"
      /\ ByOrganization
      /\ EntityType(mem.last.entity) = "organization"
      /\ AccountExists(mem, mem.last.account)
      /\ EntityExists(mem, mem.last.entity)) =>
       /\ mem.last.err = "InvalidArgument"
       /\ Held(mem.last.account, mem.last.entity) = {}
  /\ (mem.last.op = "createOrganization" /\ ByOrganization) =>
       /\ mem.last.err = IF mem.last.entity \in BlacklistedIDs
                           THEN "blacklisted_id" ELSE "nested_organizations"
       /\ ~mem.last.stored
       /\ mem.last.res = {}
  /\ (mem.last.op = "listOrganizations" /\ ByOrganization) =>
       /\ mem.last.err = IF "authInfoFails" \in mem.last.flags
                           THEN "unauthenticated" ELSE "nested_organizations"
       /\ ~mem.last.stored
       /\ mem.last.res = {}

\* createOrganization was called with an organization as collaborator for an
\* ID that is free, and failed with nested_organizations.
C24_Witness ==
  /\ mem.last.op = "createOrganization"
  /\ ByOrganization
  /\ mem.last.entity = "new-org"
  /\ mem.last.err = "nested_organizations"
  /\ "new-org" \notin mem.orgs

\* C25: a SetMember call that names an account or an entity that does not
\* exist fails with NotFound and leaves the store as it was: no membership is
\* added, changed or removed, FindMembers of the entity returns what it
\* returned before, which is nothing for an entity that does not exist.
C25_NotFoundLeavesStore ==
  [][(/\ mem'.last.op = "SetMember"
      /\ \/ ~AccountExists(mem, mem'.last.account)
         \/ ~EntityExists(mem, mem'.last.entity)) =>
       /\ mem'.last.err = "NotFound"
       /\ mem'.members = mem.members
       /\ mem'.orgs = mem.orgs
       /\ {x \in mem'.members : x.entity = mem'.last.entity}
            = {x \in mem.members : x.entity = mem'.last.entity}
       /\ ~EntityExists(mem, mem'.last.entity) =>
            /\ FindMembers(mem', mem'.last.entity) = {}
            /\ \A x \in mem'.members : x.entity # mem'.last.entity]_vars

\* SetMember has failed with NotFound on an entity that does not exist, for
\* an account that exists and holds memberships.
C25_Witness ==
  /\ mem.last.op = "SetMember"
  /\ mem.last.err = "NotFound"
  /\ AccountExists(mem, mem.last.account)
  /\ ~EntityExists(mem, mem.last.entity)
  /\ mem.last.rights # {}
  /\ \E x \in mem.members : x.account = mem.last.account

\* C26: DeleteEntityMembers(e) removes every membership on e, so that
\* FindMembers(e) is empty, and leaves the memberships on other entities as
\* they were; DeleteAccountMembers(a) removes every membership a holds, so
\* that GetMember(a, x) is NotFound for every entity x; purgeOrganization
\* leaves the purged organization without memberships in the same way.
C26_DeleteRemovesAllAndOnlyThose ==
  [][/\ mem'.last.op = "DeleteEntityMembers" =>
          /\ mem'.last.err = "nil"
          /\ FindMembers(mem', mem'.last.entity) = {}
          /\ \A x \in mem.members :
               x.entity # mem'.last.entity => x \in mem'.members
          /\ mem'.members \subseteq mem.members
     /\ mem'.last.op = "DeleteAccountMembers" =>
          /\ mem'.last.err = "nil"
          /\ \A x \in EntityIDs \cup OrganizationIDs :
               GetMember(mem', mem'.last.account, x).err = "NotFound"
          /\ mem'.members \subseteq mem.members
     /\ (mem'.last.op = "purgeOrganization" /\ mem'.last.err = "nil") =>
          /\ \A x \in EntityIDs \cup OrganizationIDs :
               GetMember(mem', mem'.last.entity, x).err = "NotFound"
          /\ mem'.members \subseteq mem.members]_vars

\* DeleteEntityMembers was called on the application while the user held a
\* membership on an organization, which is still there.
C26_Witness ==
  /\ mem.last.op = "DeleteEntityMembers"
  /\ mem.last.entity = "test-app"
  /\ FindMembers(mem, "test-app") = {}
  /\ FindMembers(mem, "test-org") # {}

\* =============================================================== FairSpec
\* handleTraffic under the scheduling Go guarantees. Both goroutines keep
\* running: a step that stays possible is taken (WF). sync.Mutex hands the
\* lock to a waiter that finds it free again and again (its starvation
\* mode), and select picks at random among the ready cases, so that the Done
\* case, ready at every select once the context is cancelled, is taken (SF).
\* Nothing obliges the gateway to send, the tickers to tick, the transport to
\* fail or the Gateway Server to disconnect.
ReaderStep ==
  \/ ParseGatewayID
  \/ FillGatewayContext
  \/ CheckAuth
  \/ Connect
  \/ Upgrade
  \/ Require
  \/ ReadMessageFailed
  \/ PingHandlerWrite
  \/ HandleUp
  \/ DownstreamWrite
  \/ DeferredDisconnect
  \/ DeferredClose

WriterStep ==
  \/ PingWrite
  \/ TransferTime
  \/ TimeSyncCheck
  \/ TimeSyncWrite
  \/ FromDownlink
  \/ DownlinkWrite
  \/ WriterClose

LockStep ==
  \/ DownstreamLock
  \/ TimeSyncLock
  \/ DownlinkLock

FairSpec ==
  /\ Spec
  /\ WF_vars(ReaderStep)
  /\ WF_vars(WriterStep)
  /\ SF_vars(LockStep)
  /\ SF_vars(SelectDone)

\* ------------------------------------------------------ FairSpec properties
\* Both loops of handleTraffic have terminated: the writer goroutine, if it
\* was started, has returned and handleTraffic has returned.
BothLoopsTerminated == pc = "returned" /\ wpc \in {"none", "returned"}

\* C27: once the connection is cancelled, both loops of handleTraffic
\* eventually terminate.
C27_CancelledTerminates == conn.cancelled ~> BothLoopsTerminated

\* C27 short of a panic in the writer goroutine: once the connection is
\* cancelled, both loops terminate or the process has crashed.
C27_CancelledTerminatesOrCrashed == conn.cancelled ~> (BothLoopsTerminated \/ crashed)

\* -------------------------------------- handleTraffic: writes and failures
\* A ws.WriteMessage of the handler's goroutine is in progress: the pong of
\* the ping handler or the downstream reply.
ReaderWrites == pc \in {"pongWrite", "replyWrite"}
\* A ws.WriteMessage of the writer goroutine is in progress: a ping, a time
\* sync message or a downlink.
WriterWrites == wpc \in {"pingWrite", "timeWrite", "downWrite"}

\* C28: no two WriteMessage calls on the websocket are in progress at once;
\* a WriteMessage is in progress only while its goroutine holds wsWriteMu,
\* and the mutex is held only while a WriteMessage is in progress: it is
\* released after each write, also after a failed one.
C28_WritesMutuallyExclusive ==
  /\ ~(ReaderWrites /\ WriterWrites)
  /\ ReaderWrites <=> wsWriteMu = "reader"
  /\ WriterWrites <=> wsWriteMu = "writer"
  /\ wsWriteMu \in {"free", "reader", "writer"}

\* The writer goroutine writes a downlink while the reader waits for the
\* mutex with a downstream reply.
C28_Witness ==
  /\ wpc = "downWrite"
  /\ wsWriteMu = "writer"
  /\ pc = "replyLock"
  /\ wsState = "open"

\* A step in which a write of the writer goroutine fails, or in which it
\* finds that TransferTime returned an error.
WriterFails ==
  \/ WriterWrites /\ wpc' # wpc /\ ~CanWrite
  \/ wpc = "timeCheck" /\ wpc' # wpc /\ b = "error"

\* C29: when a write of the writer goroutine fails or TransferTime returns
\* an error, the goroutine calls conn.Disconnect with that error, so that the
\* connection is cancelled, and leaves its loop; from there it takes no
\* downlink and serves no tick, closes the websocket and returns, and the
\* websocket stays closed.
C29_WriterFailureIsFatal ==
  [][/\ WriterFails =>
          /\ disconnects' =
               Append(disconnects,
                      [by |-> "writer",
                       reason |-> IF wpc = "timeCheck" THEN "transfer_time"
                                  ELSE "write"])
          /\ conn'.cancelled
          /\ ~conn'.registered
          /\ wpc' = "exit"
          /\ wsWriteMu' = IF wpc = "timeCheck" THEN wsWriteMu ELSE "free"
     /\ (wpc = "exit" /\ wpc' # wpc) => (wpc' = "returned" /\ wsState' = "closed")
     /\ wpc \in {"exit", "returned"} => UNCHANGED <<downs, b>>
     /\ wpc = "returned" => (wpc' = "returned" /\ wsState' = "closed")]_vars

\* The writer goroutine has returned after TransferTime returned an error:
\* it is the only one that disconnected, and the websocket is closed.
C29_Witness ==
  /\ wpc = "returned"
  /\ wsState = "closed"
  /\ Len(disconnects) >= 1
  /\ disconnects[1] = [by |-> "writer", reason |-> "transfer_time"]
  /\ conn.reason = "transfer_time"

\* A step in which the writer goroutine gives up the downlink it took: the
\* clock is not synchronized or FromDownlink fails.
SkipsDownlink ==
  /\ wpc = "down"
  /\ wpc' # wpc
  /\ ~conn.synced \/ ~downs[Len(downs)].enc

\* C30: a downlink that is skipped because the clock is not synchronized or
\* because FromDownlink fails has no effect on the connection: nothing is
\* written for it, now or later, conn.Disconnect is not called, the mutex is
\* not taken, and the writer goroutine is back at its select.
C30_SkippedDownlinkNoSideEffects ==
  [][/\ SkipsDownlink =>
          /\ wpc' = "select"
          /\ UNCHANGED <<conn, disconnects, wsState, wsWriteMu, session,
                         pingsSincePong, readerVars>>
          /\ Len(downs') = Len(downs)
          /\ downs'[Len(downs)].fate \in {"no_clock_sync", "marshal_failed"}
     /\ \A i \in 1..Len(downs) :
          downs[i].fate \in {"no_clock_sync", "marshal_failed"} =>
            downs'[i] = downs[i]]_vars

\* A downlink was skipped for want of clock synchronization and the writer
\* goroutine has gone on to write a ping on the open websocket.
C30_Witness ==
  /\ Len(downs) = 1
  /\ downs[1].fate = "no_clock_sync"
  /\ wpc = "select"
  /\ pingsSincePong > 0
  /\ wsState = "open"
  /\ ~conn.cancelled

\* ------------------------------------------ handleTraffic: the return value
\* The errors with which the reader loop can have ended, read off what the
\* loop did last: a Disconnect of its own (rate limit, failed write), a
\* malformed message handled last, or else an error returned by ReadMessage,
\* which is a failed read or the error of the ping handler.
LoopErrors ==
  IF DisconnectsBy("reader") # {}
    THEN {disconnects[i].reason : i \in DisconnectsBy("reader")}
    ELSE IF handled # <<>> /\ handled[Len(handled)].kind = "malformed"
           THEN {"handle_up"}
           ELSE {"read", "pong_write"}

\* The error a return before the upgrade has succeeded hands to the HTTP layer.
EarlyError ==
  [start |-> "invalid_gateway_id", fill |-> "fill_context",
   auth |-> "no_auth_provided", connect |-> "connect", upgrade |-> "upgrade"]

\* C31: a return of handleTraffic before the upgrade has succeeded hands the
\* error of the failed step to the HTTP layer; once the upgrade has succeeded,
\* the deferred conn.Disconnect is called with the error that ended the
\* reader loop (rate limit, read, HandleUp or write error) and handleTraffic
\* then returns nil; the value returned never changes afterwards.
C31_NilAfterUpgrade ==
  [][/\ (pc \in DOMAIN EarlyError /\ pc' = "returned") =>
          /\ ret' = EarlyError[pc]
          /\ wsState' = "none"
     /\ (pc = "deferred" /\ pc' # pc /\ ~panicking) =>
          /\ err \in LoopErrors
          /\ disconnects' =
               Append(disconnects, [by |-> "deferred", reason |-> err])
          /\ err' = "nil"
          /\ ret' = "pending"
     /\ (pc = "closing" /\ pc' # pc /\ ~panicking) =>
          /\ pc' = "returned"
          /\ ret' = "nil"
     /\ pc = "returned" => (pc' = pc /\ ret' = ret)
     /\ (pc \notin DOMAIN EarlyError /\ pc # "closing") => ret' = ret]_vars

\* handleTraffic has returned nil after a HandleUp error that the deferred
\* conn.Disconnect received.
C31_Witness ==
  /\ pc = "returned"
  /\ ret = "nil"
  /\ ~panicking
  /\ \E i \in DisconnectsBy("deferred") : disconnects[i].reason = "handle_up"

\* ------------------------------------------------ Rx1DataRate, band by band
\* Rx1DataRate of the AS923 table was called, with any inputs.
AS923Rx1Call ==
  /\ call.fn = "Rx1DataRate"
  /\ call.done
  /\ call.table = "AS_923_RP2_v1_0_2"

\* C32: the AS923 rule never fails and, for every index, offset and dwell-time
\* flag, returns a key of the band's DataRates: at least DR2 under dwell
\* time, at least DR0 otherwise, never above DR7.
C32_AS923AlwaysInRange ==
  AS923Rx1Call =>
    /\ call.res.err = "nil"
    /\ call.res.dr \in DataRates("AS_923_RP2_v1_0_2")
    /\ call.res.dr >= (IF call.dwellTime THEN 2 ELSE 0)
    /\ call.res.dr <= 7

\* Under dwell time an uplink at DR0 with offset 5 was answered with DR2, and
\* so the floor, not the difference, was returned.
C32_Witness ==
  /\ AS923Rx1Call
  /\ call.dwellTime
  /\ call.idx = 0
  /\ call.offset = 5
  /\ call.res = [dr |-> 2, err |-> "nil"]

\* The RX1 offset as the AS923 rule subtracts it: 0..5 as given, 6 and 7 as
\* 5 - offset.
FoldedOffset(offset) == IF offset > 5 THEN 5 - offset ELSE offset

\* x brought into lo..hi.
Clamp(x, lo, hi) == IF x < lo THEN lo ELSE IF x > hi THEN hi ELSE x

\* C33: for idx in 0..7 and offset in 0..7 the AS923 rule returns
\* clamp(idx - fold(offset), minDR, 7), with fold(offset) = offset for 0..5
\* and 5 - offset for 6 and 7, and minDR = 2 under dwell time, 0 otherwise.
C33_AS923OffsetFolded ==
  (AS923Rx1Call /\ call.idx \in 0..7 /\ call.offset \in 0..7) =>
    /\ call.res.err = "nil"
    /\ call.res.dr = Clamp(call.idx - FoldedOffset(call.offset),
                           IF call.dwellTime THEN 2 ELSE 0, 7)
    /\ call.offset <= 5 =>
         call.res.dr = Clamp(call.idx - call.offset,
                             IF call.dwellTime THEN 2 ELSE 0, 7)
    /\ call.offset = 6 =>
         call.res.dr = Clamp(call.idx + 1, IF call.dwellTime THEN 2 ELSE 0, 7)
    /\ call.offset = 7 =>
         call.res.dr = Clamp(call.idx + 2, IF call.dwellTime THEN 2 ELSE 0, 7)

\* Offset 7 raised an uplink at DR3 to DR5.
C33_Witness ==
  /\ AS923Rx1Call
  /\ call.idx = 3
  /\ call.offset = 7
  /\ ~call.dwellTime
  /\ call.res = [dr |-> 5, err |-> "nil"]

\* Rx1DataRate of the CN470-510 26 MHz type A table was called.
CN470Rx1Call ==
  /\ call.fn = "Rx1DataRate"
  /\ call.done
  /\ call.table = "CN_470_510_26_A_RP2_v1_0_0"

\* C34: the CN470-510 26 MHz A rule fails with data_rate_index_too_high when
\* the index is above DR5, whatever the offset; with
\* data_rate_offset_too_high when the index is valid and the offset is above
\* 5; and otherwise returns cn470510DownlinkDRTable[idx][offset] without
\* error; the dwell-time flag plays no part.
C34_CN470ErrorsInOrder ==
  CN470Rx1Call =>
    /\ call.idx > 5 => call.res.err = "data_rate_index_too_high"
    /\ (call.idx <= 5 /\ call.offset > 5) =>
         call.res.err = "data_rate_offset_too_high"
    /\ (call.idx <= 5 /\ call.offset <= 5) =>
         call.res = [dr |-> cn470510DownlinkDRTable(call.idx, call.offset),
                     err |-> "nil"]

\* Index and offset were both out of range and the index was reported.
C34_Witness ==
  /\ CN470Rx1Call
  /\ call.idx = 6
  /\ call.offset = 6
  /\ call.dwellTime
  /\ call.res.err = "data_rate_index_too_high"

\* ===================================================== HandlerSpec
\* One call of a request handler, with its arguments and what it has done so
\* far in `call`: errorHandler of the websocket frontend (ws.go);
\* processNames, FindRelated and Stream of the events server
\* (events/grpc/grpc.go); the calls of the organization registry that publish
\* an event (identity server).

\* ----------------------------------------------------------- errorHandler
\* The error codes of defined errors.
ErrorCodes ==
  {"Canceled", "Unknown", "InvalidArgument", "DeadlineExceeded", "NotFound",
   "AlreadyExists", "PermissionDenied", "ResourceExhausted",
   "FailedPrecondition", "Aborted", "Internal", "Unavailable",
   "Unauthenticated"}

\* What an error says: its text may name a host, a query or a file.
ErrorTexts == {"gateway not found", "dial db-1.internal:5432", "SELECT * FROM gateways", "open /etc/tls/key.pem"}

\* The errors given to errorHandler: echo HTTP errors, errors that errors.From
\* recognises as defined errors, and errors of any other type.
HandledErrors ==
  {[type |-> "echo", Code |-> c, Message |-> t, code |-> "none"] :
     c \in {400, 404, 500}, t \in ErrorTexts}
  \cup {[type |-> "ttn", Code |-> 0, Message |-> t, code |-> c] :
          c \in ErrorCodes, t \in ErrorTexts}
  \cup {[type |-> "other", Code |-> 0, Message |-> t, code |-> "none"] :
          t \in ErrorTexts}

\* errors.IsInternal: the error has the code Internal.
IsInternal(e) == e.code = "Internal"

\* errors.ToHTTPStatusCode: the HTTP status of the error's code.
ToHTTPStatusCode(e) ==
  CASE e.code = "Canceled" -> 499
    [] e.code = "InvalidArgument" -> 400
    [] e.code = "DeadlineExceeded" -> 504
    [] e.code = "NotFound" -> 404
    [] e.code = "AlreadyExists" -> 409
    [] e.code = "PermissionDenied" -> 403
    [] e.code = "ResourceExhausted" -> 429
    [] e.code = "FailedPrecondition" -> 400
    [] e.code = "Aborted" -> 409
    [] e.code = "Unavailable" -> 503
    [] e.code = "Unauthenticated" -> 401
    [] OTHER -> 500

\* c.NoContent: a response without body.
NoContent(statusCode) == [status |-> statusCode, body |-> ""]

\* c.JSON: a response with a body.
JSON(statusCode, body) == [status |-> statusCode, body |-> body]

\* An error handler that describes every defined error.
errorHandlerDescribesInternal(e) ==
  IF e.type = "echo"
    THEN JSON(e.Code, e.Message)
    ELSE IF e.type = "ttn"
           THEN JSON(ToHTTPStatusCode(e), e.Message)
           ELSE NoContent(500)

\* errorHandler (ws.go lines 349-368).
errorHandler(e) ==
  IF e.type = "echo"
    THEN JSON(e.Code, e.Message)
    ELSE LET ok == e.type = "ttn"
             description == IF ok /\ ~IsInternal(e) THEN e.Message ELSE ""
             statusCode == IF ok THEN ToHTTPStatusCode(e) ELSE 500
         IN  IF description # ""
               THEN JSON(statusCode, description)
               ELSE NoContent(statusCode)

ErrorHandlerCalls ==
  {[fn |-> "errorHandler", err |-> e, done |-> FALSE, res |-> NoContent(0)] :
     e \in HandledErrors}

CallErrorHandler ==
  /\ call.fn = "errorHandler"
  /\ ~call.done
  /\ call' = [call EXCEPT !.done = TRUE, !.res = errorHandler(call.err)]
  /\ UNCHANGED <<wsVars, lns, sched, mem>>

\* ----------------------------------------------------------- processNames
\* At most MaxNames names are asked for in one request.
MaxNames == 2

\* srv.definedNames, in the order of sort.Strings.
DefinedNameOrder == <<"as.up.forward", "gs.down.send", "gs.up.receive">>

definedNames == {DefinedNameOrder[i] : i \in 1..Len(DefinedNameOrder)}

\* The regular expressions asked for, between slashes, with the defined
\* names regexp.MatchString finds them in; "/[/" does not compile.
Regexps ==
  [p \in {"/gs/", "/up/", "//", "/^ns[.]/", "/[/"} |->
     CASE p = "/gs/" -> {"gs.down.send", "gs.up.receive"}
       [] p = "/up/" -> {"as.up.forward", "gs.up.receive"}
       [] p = "//" -> definedNames
       [] OTHER -> {}]

\* regexp.Compile succeeds.
Compiles(p) == p # "/[/"

\* The names a request can hold.
RequestedNames == definedNames \cup {"ns.up.unknown"} \cup DOMAIN Regexps

\* The place of a defined name in the order of sort.Strings.
Rank(name) == CHOOSE i \in 1..Len(DefinedNameOrder) : DefinedNameOrder[i] = name

\* sort.Strings on the keys of nameMap.
RECURSIVE SortStrings(_)
SortStrings(nameMap) ==
  IF nameMap = {}
    THEN <<>>
    ELSE LET first == CHOOSE x \in nameMap : \A y \in nameMap : Rank(x) <= Rank(y)
         IN  <<first>> \o SortStrings(nameMap \ {first})

\* A loop that passes over the names it cannot resolve.
RECURSIVE processNamesLenientFrom(_, _, _)
processNamesLenientFrom(names, i, nameMap) ==
  IF i > Len(names)
    THEN [names |-> SortStrings(nameMap), err |-> "nil"]
    ELSE LET name == names[i]
         IN  IF name \in DOMAIN Regexps
               THEN IF ~Compiles(name)
                      THEN [names |-> <<>>, err |-> "invalid_regexp"]
                      ELSE processNamesLenientFrom(names, i + 1,
                                                   nameMap \cup Regexps[name])
               ELSE IF name \notin definedNames
                      THEN processNamesLenientFrom(names, i + 1, nameMap)
                      ELSE processNamesLenientFrom(names, i + 1,
                                                   nameMap \cup {name})

processNamesLenient(names) == processNamesLenientFrom(names, 1, {})

\* The loop of lines 78-107 from the i-th name on, with the names found so
\* far, and lines 108-116 after it.
RECURSIVE processNamesFrom(_, _, _)
processNamesFrom(names, i, nameMap) ==
  IF i > Len(names)
    THEN [names |-> SortStrings(nameMap), err |-> "nil"]
    ELSE LET name == names[i]
         IN  IF name \in DOMAIN Regexps
               THEN IF ~Compiles(name)
                      THEN [names |-> <<>>, err |-> "invalid_regexp"]
                      ELSE IF Regexps[name] = {}
                             THEN [names |-> <<>>, err |-> "no_matching_events"]
                             ELSE processNamesFrom(names, i + 1,
                                                   nameMap \cup Regexps[name])
               ELSE IF name \notin definedNames
                      THEN [names |-> <<>>, err |-> "unknown_event_name"]
                      ELSE processNamesFrom(names, i + 1, nameMap \cup {name})

\* EventsServer.processNames (grpc.go lines 73-117); a nil slice is <<>>.
processNames(names) ==
  IF Len(names) = 0
    THEN [names |-> <<>>, err |-> "nil"]
    ELSE processNamesFrom(names, 1, {})

ProcessNamesCalls ==
  {[fn |-> "processNames", names |-> n, done |-> FALSE,
    res |-> [names |-> <<>>, err |-> "nil"]] :
     n \in UNION {[1..k -> RequestedNames] : k \in 0..MaxNames}}

CallProcessNames ==
  /\ call.fn = "processNames"
  /\ ~call.done
  /\ call' = [call EXCEPT !.done = TRUE, !.res = processNames(call.names)]
  /\ UNCHANGED <<wsVars, lns, sched, mem>>

\* ------------------------------------------------------------ the events
\* rightsutil.EventIsVisible for the caller's context: the caller may see the
\* event, may not, or the check itself fails.
Visibilities == {"visible", "hidden", "failed"}

\* The fields of an event that FindRelated calls private.
PrivateFields ==
  {"Data", "CorrelationIds", "Context", "Authentication", "RemoteIP", "UserAgent"}

\* The i-th event of a store or of a subscription, as the publisher made it;
\* `convertible` says whether events.Proto can convert it.
Event(i, check, convertible) ==
  [UniqueId |-> i, Name |-> "gs.up.receive", Time |-> i,
   Identifiers |-> {"gtw1"}, Origin |-> "host-1", Visibility |-> "RIGHT_GATEWAY_TRAFFIC_READ",
   Data |-> "payload", CorrelationIds |-> "cid", Context |-> "ctx",
   Authentication |-> "bearer", RemoteIP |-> "10.0.0.1", UserAgent |-> "cli",
   check |-> check, convertible |-> convertible]

\* events.Proto(evt) fails on an event it cannot convert.
ProtoFails(evt) == ~evt.convertible

\* rightsutil.EventIsVisible(ctx, evt).
EventIsVisible(evt) ==
  [isVisible |-> evt.check = "visible", err |-> evt.check = "failed"]

\* ------------------------------------------------------------ FindRelated
\* At most MaxStored events of the store are related to one correlation id.
MaxStored == 2

\* A redaction that leaves the address of the client in the event.
RedactedKeepsRemoteIP(evt) ==
  [evt EXCEPT !.Data = "", !.CorrelationIds = "", !.Context = "",
              !.Authentication = "", !.UserAgent = ""]

\* The event FindRelated returns in place of one the caller may not see
\* (lines 257-271).
Redacted(evt) ==
  [evt EXCEPT !.Data = "", !.CorrelationIds = "", !.Context = "",
              !.Authentication = "", !.RemoteIP = "", !.UserAgent = ""]

\* The loop of lines 244-273 from the i-th event on.
RECURSIVE FindRelatedFrom(_, _)
FindRelatedFrom(evts, i) ==
  IF i > Len(evts)
    THEN <<>>
    ELSE LET evt == evts[i]
             rest == FindRelatedFrom(evts, i + 1)
         IN  IF ProtoFails(evt)
               THEN rest
               ELSE IF EventIsVisible(evt).err
                      THEN rest
                      ELSE IF EventIsVisible(evt).isVisible
                             THEN <<evt>> \o rest
                             ELSE <<Redacted(evt)>> \o rest

\* EventsServer.FindRelated (grpc.go lines 226-275).
FindRelated(hasStore, authOK, storeOK, evts) ==
  IF ~hasStore
    THEN [Events |-> <<>>, err |-> "storage_disabled"]
    ELSE IF ~authOK
           THEN [Events |-> <<>>, err |-> "unauthenticated"]
           ELSE IF ~storeOK
                  THEN [Events |-> <<>>, err |-> "store"]
                  ELSE [Events |-> FindRelatedFrom(evts, 1), err |-> "nil"]

\* The store with another value in one private field of every event the
\* caller may not see.
OtherStore(evts, field) ==
  [i \in 1..Len(evts) |->
     IF evts[i].check = "visible"
       THEN evts[i]
       ELSE [evts[i] EXCEPT ![field] = "other"]]

\* FindRelated is called on a store and, by the same caller, on the store
\* that differs from it in one private field of the events hidden from the
\* caller.
FindRelatedCalls ==
  {[fn |-> "FindRelated", hasStore |-> hs, authOK |-> a, storeOK |-> so,
    evts |-> [i \in 1..Len(kinds) |-> Event(i, kinds[i][1], kinds[i][2])],
    field |-> f,
    done |-> FALSE, res |-> <<>>, other |-> <<>>] :
     hs \in BOOLEAN, a \in BOOLEAN, so \in BOOLEAN, f \in PrivateFields,
     kinds \in UNION {[1..k -> Visibilities \X BOOLEAN] : k \in 0..MaxStored}}

CallFindRelated ==
  /\ call.fn = "FindRelated"
  /\ ~call.done
  /\ call' = [call EXCEPT
                !.done = TRUE,
                !.res = FindRelated(call.hasStore, call.authOK, call.storeOK,
                                    call.evts),
                !.other = FindRelated(call.hasStore, call.authOK, call.storeOK,
                                      OtherStore(call.evts, call.field))]
  /\ UNCHANGED <<wsVars, lns, sched, mem>>

\* ----------------------------------------------------------------- Stream
\* At most MaxEvents events are published while the stream is open.
MaxEvents == 2

\* The start event of lines 169-176.
startEvent == [Name |-> "events.stream.start", UniqueId |-> 0]

\* The requests of Stream: with or without identifiers, with names that
\* processNames accepts or not, on a pubsub that is a store or not, from a
\* caller with rights or without.
StreamCalls ==
  {[fn |-> "Stream", Identifiers |-> ids, Names |-> names, hasStore |-> hs,
    rights |-> r, pc |-> "start", cancelled |-> FALSE, group |-> "nil",
    ch |-> <<>>, published |-> 0, evt |-> Event(0, "hidden", FALSE),
    sent |-> <<>>,
    ret |-> "pending"] :
     ids \in {{}, {"gtw1"}},
     names \in {<<>>, <<"/gs/">>, <<"ns.up.unknown">>},
     hs \in BOOLEAN, r \in BOOLEAN}

\* The stream returns the error.
StreamReturn(error) ==
  call' = [call EXCEPT !.pc = "returned", !.ret = error]

\* Lines 123-136: the identifiers, the names and the caller's rights.
StreamCheckRequest ==
  /\ call.fn = "Stream"
  /\ call.pc = "start"
  /\ IF call.Identifiers = {}
       THEN StreamReturn("no_identifiers")
       ELSE IF processNames(call.Names).err # "nil"
              THEN StreamReturn(processNames(call.Names).err)
              ELSE IF ~call.rights
                     THEN StreamReturn("no_rights")
                     ELSE call' = [call EXCEPT !.pc = "subscribe"]
  /\ UNCHANGED <<wsVars, lns, sched, mem>>

\* Lines 141-159: the subscription, in a goroutine of the group when the
\* pubsub is a store.
StreamSubscribe ==
  /\ call.fn = "Stream"
  /\ call.pc = "subscribe"
  /\ IF call.hasStore
       THEN call' = [call EXCEPT !.pc = "header"]
       ELSE \/ call' = [call EXCEPT !.pc = "header"]
            \/ StreamReturn("subscribe")
  /\ UNCHANGED <<wsVars, lns, sched, mem>>

\* Lines 161-163: stream.SendHeader.
StreamSendHeader ==
  /\ call.fn = "Stream"
  /\ call.pc = "header"
  /\ \/ call' = [call EXCEPT !.pc = "start_event"]
     \/ StreamReturn("send")
  /\ UNCHANGED <<wsVars, lns, sched, mem>>

\* Lines 165-191: the start event is made and sent.
StreamSendStart ==
  /\ call.fn = "Stream"
  /\ call.pc = "start_event"
  /\ \/ call' = [call EXCEPT !.pc = "select", !.sent = <<startEvent>>]
     \/ StreamReturn("send")
  /\ UNCHANGED <<wsVars, lns, sched, mem>>

\* Lines 195-199: the context of the stream is done.
StreamDone ==
  /\ call.fn = "Stream"
  /\ call.pc = "select"
  /\ call.cancelled
  /\ StreamReturn(IF call.hasStore THEN call.group ELSE "context_canceled")
  /\ UNCHANGED <<wsVars, lns, sched, mem>>

\* Line 200: an event is taken from the channel.
StreamReceive ==
  /\ call.fn = "Stream"
  /\ call.pc = "select"
  /\ call.ch # <<>>
  /\ call' = [call EXCEPT !.pc = "visible", !.evt = Head(call.ch),
                          !.ch = Tail(call.ch)]
  /\ UNCHANGED <<wsVars, lns, sched, mem>>

\* A loop that sends the events whose visibility could not be checked.
StreamCheckVisibleSendsUnchecked ==
  /\ call.fn = "Stream"
  /\ call.pc = "visible"
  /\ IF EventIsVisible(call.evt).err \/ EventIsVisible(call.evt).isVisible
       THEN call' = [call EXCEPT !.pc = "proto"]
       ELSE call' = [call EXCEPT !.pc = "select"]
  /\ UNCHANGED <<wsVars, lns, sched, mem>>

\* Lines 201-211: the visibility of the event; when the check fails the
\* caller's rights are required again.
StreamCheckVisible ==
  /\ call.fn = "Stream"
  /\ call.pc = "visible"
  /\ IF EventIsVisible(call.evt).err
       THEN IF ~call.rights
              THEN StreamReturn("no_rights")
              ELSE call' = [call EXCEPT !.pc = "select"]
       ELSE IF ~EventIsVisible(call.evt).isVisible
              THEN call' = [call EXCEPT !.pc = "select"]
              ELSE call' = [call EXCEPT !.pc = "proto"]
  /\ UNCHANGED <<wsVars, lns, sched, mem>>

\* Lines 212-219: the event is converted and sent.
StreamSend ==
  /\ call.fn = "Stream"
  /\ call.pc = "proto"
  /\ IF ProtoFails(call.evt)
       THEN call' = [call EXCEPT !.pc = "select"]
       ELSE \/ call' = [call EXCEPT !.pc = "select",
                                    !.sent = Append(call.sent, call.evt)]
            \/ StreamReturn("send")
  /\ UNCHANGED <<wsVars, lns, sched, mem>>

\* The pubsub hands an event to the handler of line 139, which puts it on the
\* channel of 8 events.
Publish ==
  /\ call.fn = "Stream"
  /\ call.pc \notin {"start", "subscribe", "returned"}
  /\ call.published < MaxEvents
  /\ Len(call.ch) < 8
  /\ \E check \in Visibilities, convertible \in BOOLEAN :
       call' = [call EXCEPT
                  !.published = @ + 1,
                  !.ch = Append(@, Event(call.published + 1, check, convertible))]
  /\ UNCHANGED <<wsVars, lns, sched, mem>>

\* The caller loses its rights on the requested identifiers.
RevokeRights ==
  /\ call.fn = "Stream"
  /\ call.pc \notin {"start", "returned"}
  /\ call.rights
  /\ call' = [call EXCEPT !.rights = FALSE]
  /\ UNCHANGED <<wsVars, lns, sched, mem>>

\* The caller goes away, or the subscription of the group fails: the context
\* is done.
CancelContext ==
  /\ call.fn = "Stream"
  /\ call.pc \notin {"start", "subscribe", "returned"}
  /\ ~call.cancelled
  /\ \/ call' = [call EXCEPT !.cancelled = TRUE, !.group = "context_canceled"]
     \/ /\ call.hasStore
        /\ call' = [call EXCEPT !.cancelled = TRUE, !.group = "subscribe"]
  /\ UNCHANGED <<wsVars, lns, sched, mem>>

\* -------------------------------------- the organization registry's events
\* What a handler returns whose transaction failed and was rolled back.
RolledBack(m, er) == [Refused(m, er) EXCEPT !.stored = TRUE]

\* is.updateOrganization (lines 225-257) of a request that names
\* contact_info: the right (226-228), the contact info (233-237), the
\* transaction (238-251), then the event (255).
updateOrganization(m, id, flags) ==
  IF "rights" \notin flags THEN Refused(m, "insufficient_rights")
  ELSE IF "invalidContactInfo" \in flags THEN Refused(m, "invalid_contact_info")
  ELSE IF id \notin m.orgs THEN RolledBack(m, "NotFound")
  ELSE IF "txFails" \in flags THEN RolledBack(m, "store")
  ELSE PublishEvent([Refused(m, "nil") EXCEPT !.stored = TRUE, !.res = {id}],
                    "organization.update")

\* A deleteOrganization that publishes its event before the transaction.
deleteOrganizationPublishesFirst(m, id, flags) ==
  IF "rights" \notin flags THEN Refused(m, "insufficient_rights")
  ELSE IF id \notin m.orgs
    THEN PublishEvent(RolledBack(m, "NotFound"), "organization.delete")
  ELSE IF "txFails" \in flags
    THEN PublishEvent(RolledBack(m, "store"), "organization.delete")
  ELSE PublishEvent([members |-> m.members, orgs |-> m.orgs \ {id},
                     deleted |-> m.deleted \cup {id}, err |-> "nil",
                     stored |-> TRUE, res |-> {}, events |-> <<>>],
                    "organization.delete")

\* is.deleteOrganization (lines 259-271): the right (260-262), the
\* transaction that marks the organization deleted (263-268), the event
\* (269).
deleteOrganization(m, id, flags) ==
  IF "rights" \notin flags THEN Refused(m, "insufficient_rights")
  ELSE IF id \notin m.orgs THEN RolledBack(m, "NotFound")
  ELSE IF "txFails" \in flags THEN RolledBack(m, "store")
  ELSE PublishEvent([members |-> m.members, orgs |-> m.orgs \ {id},
                     deleted |-> m.deleted \cup {id}, err |-> "nil",
                     stored |-> TRUE, res |-> {}, events |-> <<>>],
                    "organization.delete")

\* is.restoreOrganization (lines 273-297): the right (274-276); the
\* transaction finds the deleted organization (279-282), refuses once the
\* restore window is over (287-289) and restores it (290); then the event
\* (295). The store returns deleted organizations only, so the panic of
\* line 285 is not reached.
restoreOrganization(m, id, flags) ==
  IF "rights" \notin flags THEN Refused(m, "insufficient_rights")
  ELSE IF id \notin m.deleted THEN RolledBack(m, "NotFound")
  ELSE IF "expired" \in flags THEN RolledBack(m, "restore_window_expired")
  ELSE IF "txFails" \in flags THEN RolledBack(m, "store")
  ELSE PublishEvent([members |-> m.members, orgs |-> m.orgs \cup {id},
                     deleted |-> m.deleted \ {id}, err |-> "nil",
                     stored |-> TRUE, res |-> {}, events |-> <<>>],
                    "organization.restore")

\* The organizations of the database before a call: test-org is there, or
\* has been deleted and can be restored.
OrganizationStores ==
  {[members |-> {}, orgs |-> {"test-org"}, deleted |-> {}],
   [members |-> {}, orgs |-> {}, deleted |-> {"test-org"}]}

\* The flags of a call: what the caller is and may do, and what goes wrong.
RegistryFlags(op) ==
  CASE op = "Create" -> {"admin", "CreateOrganizations", "userRights"}
    [] op = "Update" -> {"rights", "invalidContactInfo", "txFails"}
    [] op = "Delete" -> {"rights", "txFails"}
    [] op = "Restore" -> {"rights", "expired", "txFails"}
    [] OTHER -> {"admin"}

\* The calls of the organizationRegistry (lines 330-356) that change
\* organizations.
RegistryCalls ==
  UNION {{[fn |-> "organizationRegistry", op |-> c[1], id |-> c[2],
           collaborator |-> c[3], flags |-> flags, store |-> m,
           done |-> FALSE, after |-> m, res |-> Refused(m, "nil")] :
            flags \in SUBSET RegistryFlags(c[1]), m \in OrganizationStores} :
         c \in ({"Create"} \X (OrganizationIDs \cup BlacklistedIDs)
                           \X (Users \cup {"test-org"}))
               \cup ({"Update", "Delete", "Restore", "Purge"}
                       \X OrganizationIDs \X {""})}

\* The database after a call that returned r.
After(m, r) ==
  [members |-> r.members, orgs |-> r.orgs,
   deleted |-> IF "deleted" \in DOMAIN r THEN r.deleted ELSE m.deleted]

\* The call of the registry has returned r.
RegistryReturns(r) ==
  call' = [call EXCEPT !.done = TRUE, !.res = r, !.after = After(call.store, r)]

organizationRegistryCreate ==
  /\ call.fn = "organizationRegistry"
  /\ call.op = "Create"
  /\ ~call.done
  /\ RegistryReturns(createOrganization(call.store, call.id, call.collaborator,
                                        call.flags))
  /\ UNCHANGED <<wsVars, lns, sched, mem>>

organizationRegistryUpdate ==
  /\ call.fn = "organizationRegistry"
  /\ call.op = "Update"
  /\ ~call.done
  /\ RegistryReturns(updateOrganization(call.store, call.id, call.flags))
  /\ UNCHANGED <<wsVars, lns, sched, mem>>

organizationRegistryDelete ==
  /\ call.fn = "organizationRegistry"
  /\ call.op = "Delete"
  /\ ~call.done
  /\ RegistryReturns(deleteOrganization(call.store, call.id, call.flags))
  /\ UNCHANGED <<wsVars, lns, sched, mem>>

organizationRegistryRestore ==
  /\ call.fn = "organizationRegistry"
  /\ call.op = "Restore"
  /\ ~call.done
  /\ RegistryReturns(restoreOrganization(call.store, call.id, call.flags))
  /\ UNCHANGED <<wsVars, lns, sched, mem>>

organizationRegistryPurge ==
  /\ call.fn = "organizationRegistry"
  /\ call.op = "Purge"
  /\ ~call.done
  /\ RegistryReturns(purgeOrganization(call.store, call.id, call.flags))
  /\ UNCHANGED <<wsVars, lns, sched, mem>>

\* ------------------------------------------------------ the specification
HandlerInit ==
  /\ req = [idOK |-> TRUE, auth |-> "token"]
  /\ cfg = [AllowUnauthenticated |-> FALSE, TimeSync |-> FALSE]
  /\ NotStarted
  /\ lns = NewSession
  /\ sched = NoSched
  /\ mem = NoStore
  /\ \/ call \in ErrorHandlerCalls
     \/ call \in ProcessNamesCalls
     \/ call \in FindRelatedCalls
     \/ call \in StreamCalls
     \/ call \in RegistryCalls

HandlerNext ==
  \/ CallErrorHandler
  \/ CallProcessNames
  \/ CallFindRelated
  \/ StreamCheckRequest
  \/ StreamSubscribe
  \/ StreamSendHeader
  \/ StreamSendStart
  \/ StreamDone
  \/ StreamReceive
  \/ StreamCheckVisible
  \/ StreamSend
  \/ Publish
  \/ RevokeRights
  \/ CancelContext
  \/ organizationRegistryCreate
  \/ organizationRegistryUpdate
  \/ organizationRegistryDelete
  \/ organizationRegistryRestore
  \/ organizationRegistryPurge

HandlerSpec == HandlerInit /\ [][HandlerNext]_vars

\* ------------------------------------------------ HandlerSpec: properties
\* C35: for an error that is not an echo HTTP error, the response of
\* errorHandler has a body only when the error is a defined error that is
\* not internal, and the body is then that error's message; for an internal
\* error and for an error of unknown type the response is the status code
\* with no body, so no text of the error is in it.
C35_InternalTextNotDisclosed ==
  (call.fn = "errorHandler" /\ call.done /\ call.err.type # "echo") =>
    /\ call.res.body # "" =>
         /\ call.err.type = "ttn"
         /\ call.err.code # "Internal"
         /\ call.res.body = call.err.Message
    /\ (call.err.type = "other" \/ call.err.code = "Internal") =>
         /\ call.res.body = ""
         /\ call.res.status = 500
    /\ call.res.body \in {"", call.err.Message}

\* An internal error whose text names a database host was answered with
\* status 500 and no body.
C35_Witness ==
  /\ call.fn = "errorHandler"
  /\ call.done
  /\ call.err.type = "ttn"
  /\ call.err.code = "Internal"
  /\ call.err.Message = "dial db-1.internal:5432"
  /\ call.res = [status |-> 500, body |-> ""]

\* The names of a request that processNames cannot resolve.
UnknownNames(names) ==
  {i \in 1..Len(names) : names[i] \notin DOMAIN Regexps /\ names[i] \notin definedNames}

InvalidRegexps(names) ==
  {i \in 1..Len(names) : names[i] \in DOMAIN Regexps /\ ~Compiles(names[i])}

UnmatchedRegexps(names) ==
  {i \in 1..Len(names) : /\ names[i] \in DOMAIN Regexps
                         /\ Compiles(names[i])
                         /\ Regexps[names[i]] = {}}

\* C38: processNames returns an error and no names, or no error and a list
\* that is sorted, without duplicates and made of defined names only; it
\* fails exactly when some name of the request is an undefined plain name, a
\* regexp that does not compile or a regexp that matches no defined name,
\* with the error of the first such name; an empty request gives nil and no
\* error.
C38_ProcessNamesAllOrNothing ==
  (call.fn = "processNames" /\ call.done) =>
    LET names == call.names
        out == call.res.names
        bad == UnknownNames(names) \cup InvalidRegexps(names)
                 \cup UnmatchedRegexps(names)
        first == CHOOSE i \in bad : \A j \in bad : i <= j
    IN  /\ call.res.err # "nil" => out = <<>>
        /\ call.res.err = "nil" =>
             /\ \A i \in 1..Len(out) : out[i] \in definedNames
             /\ \A i, j \in 1..Len(out) : i < j => Rank(out[i]) < Rank(out[j])
             /\ {out[i] : i \in 1..Len(out)} =
                  {n \in definedNames :
                     \E i \in 1..Len(names) :
                       \/ names[i] = n
                       \/ names[i] \in DOMAIN Regexps /\ n \in Regexps[names[i]]}
        /\ call.res.err # "nil" <=> bad # {}
        /\ bad # {} =>
             call.res.err = IF first \in UnknownNames(names)
                              THEN "unknown_event_name"
                              ELSE IF first \in InvalidRegexps(names)
                                     THEN "invalid_regexp"
                                     ELSE "no_matching_events"
        /\ names = <<>> => call.res = [names |-> <<>>, err |-> "nil"]

\* A request with a defined name and, after it, an undefined one failed with
\* unknown_event_name and returned no name.
C38_Witness ==
  /\ call.fn = "processNames"
  /\ call.done
  /\ call.names = <<"gs.up.receive", "ns.up.unknown">>
  /\ call.res = [names |-> <<>>, err |-> "unknown_event_name"]

\* C36: on an events stream the first event sent is events.stream.start, and
\* every event sent after it was judged visible by EventIsVisible; a step
\* that deals with an event that is hidden, or whose visibility check
\* fails, sends nothing, and when the check fails and the caller has no
\* rights left on the requested identifiers the stream ends with the rights
\* error.
C36_OnlyVisibleEventsSent ==
  [][call.fn = "Stream" =>
       /\ call'.sent # call.sent =>
            \/ call.sent = <<>> /\ call'.sent = <<startEvent>>
            \/ /\ call.sent # <<>>
               /\ call'.sent = Append(call.sent, call.evt)
               /\ call.evt.check = "visible"
               /\ call.pc = "proto"
       /\ (call.pc = "visible" /\ call.evt.check # "visible") =>
            /\ call'.sent = call.sent
            /\ call'.pc # "proto"
       /\ (call.pc = "visible" /\ call'.pc # call.pc
             /\ call.evt.check = "failed" /\ ~call.rights) =>
            /\ call'.pc = "returned"
            /\ call'.ret = "no_rights"
       /\ call.pc = "proto" => call.evt.check = "visible"
       /\ call.pc = "returned" => call'.sent = call.sent]_vars

\* A visible event was sent after the start event, and the stream then ended
\* with the rights error on an event whose check failed.
C36_Witness ==
  /\ call.fn = "Stream"
  /\ call.pc = "returned"
  /\ call.ret = "no_rights"
  /\ Len(call.sent) = 2
  /\ call.sent[2].check = "visible"
  /\ call.evt.check = "failed"

\* The events of the store that FindRelated answers with: those that
\* convert and whose visibility can be checked.
Answered ==
  {i \in 1..Len(call.evts) :
     call.evts[i].convertible /\ call.evts[i].check # "failed"}

EventOf ==
  [Create |-> "organization.create", Update |-> "organization.update",
   Delete |-> "organization.delete", Restore |-> "organization.restore",
   Purge |-> "organization.purge"]

\* The database holds what the call was to do.
Committed ==
  CASE call.op = "Create" -> /\ call.id \notin call.store.orgs
                             /\ call.id \in call.after.orgs
                             /\ \E x \in call.after.members :
                                  x.account = call.collaborator /\ x.entity = call.id
    [] call.op = "Update" -> call.id \in call.after.orgs /\ call.res.stored
    [] call.op = "Delete" -> /\ call.id \in call.store.orgs
                             /\ call.id \notin call.after.orgs
                             /\ call.id \in call.after.deleted
    [] call.op = "Restore" -> /\ call.id \in call.store.deleted
                              /\ call.id \in call.after.orgs
                              /\ call.id \notin call.after.deleted
    [] OTHER -> /\ call.id \in call.store.orgs
                /\ call.id \notin call.after.orgs

\* C39: a call of createOrganization, updateOrganization, deleteOrganization,
\* restoreOrganization or purgeOrganization that returns no error has
\* committed its transaction and published exactly one event, its own; a
\* call that returns an error (a rights or admin check, a validation or the
\* transaction failed) has published none and left the database as it was.
C39_EventIffSucceeded ==
  (call.fn = "organizationRegistry" /\ call.done) =>
    /\ call.res.err = "nil" =>
         /\ call.res.events = <<EventOf[call.op]>>
         /\ Committed
    /\ call.res.err # "nil" =>
         /\ call.res.events = <<>>
         /\ call.after = call.store
    /\ call.res.events # <<>> => call.res.err = "nil"

\* A deleteOrganization whose transaction failed returned the error of the
\* store and published nothing.
C39_Witness ==
  /\ call.fn = "organizationRegistry"
  /\ call.done
  /\ call.op = "Delete"
  /\ call.flags = {"rights", "txFails"}
  /\ call.id \in call.store.orgs
  /\ call.res.err = "store"
  /\ call.res.events = <<>>
====
